---- MODULE Spec2Model ----
(***************************************************************************)
(* A model of the ROSOMAXA population (rosomaxa/src/population/rosomaxa.rs)*)
(* as a state machine: the population facade (add, add_all, on_generation, *)
(* select, ranked, cmp, size, selection_phase) and the phase controller    *)
(* (update_phase, optimize_network, fill_populations).                     *)
(*                                                                         *)
(* Real numbers are fixed-point integers: ratios and estimates are given   *)
(* in percent (0.9 is 90), relative distances are exact fractions          *)
(* <<numerator, denominator>>.  A fitness vector has one component.        *)
(*                                                                         *)
(* The operations are operators of the current state and their arguments   *)
(* (add, add_all, update_phase, select, ...), giving the state afterwards  *)
(* and the returned value; the actions apply them.  The random source is   *)
(* a nondeterministic choice over the values it can return.                *)
(***************************************************************************)
EXTENDS Integers, Sequences, FiniteSets, TLC

VARIABLES
    config,     \* RosomaxaConfig handed to Rosomaxa::new
    result,     \* "Ok" or "Err": what Rosomaxa::new returned
    elite,      \* Rosomaxa.elite: the individuals of the elite archive, best first
    phase,      \* Rosomaxa.phase: the RosomaxaPhases variant and its fields
    panic,      \* "none", or the message of the panic that ended the run
    added,      \* number of individuals handed to add / add_all so far
    builder,    \* solver::Builder: max_generations, max_time, cost_variation
    solver,     \* what Builder::build returned, with the position of its run
    routes,     \* the tours of a solution under the tour order constraint
    borrows     \* the borrows of the population alive: iterator and mutators

vars == <<config, result, elite, phase, panic, added, builder, solver, routes, borrows>>

(***************************************************************************)
(* Bounds of the model.                                                    *)
(***************************************************************************)
MaxFit == 2         \* fitness values are 1..MaxFit
MaxW == 1           \* weights are 0..MaxW
MaxAdded == 5       \* individuals handed to the population in one run
MaxBatch == 2       \* longest add_all batch
MaxGen == 1         \* statistics.generation is 0..MaxGen
MaxNodes == 12      \* nodes of a network handed to optimize_network on its own
MaxRunGenerations == 4000   \* generations a built solver is followed for
MaxRunSeconds == 400        \* seconds a built solver is followed for
MaxOrder == 2       \* order values of jobs are 1..MaxOrder, or none
MaxJobs == 3        \* jobs in one tour
MaxRoutes == 2      \* routes of the solution

(***************************************************************************)
(* Helpers on sequences and numbers.                                       *)
(***************************************************************************)
Min(a, b) == IF a <= b THEN a ELSE b

Max(a, b) == IF a >= b THEN a ELSE b

Abs(a) == IF a < 0 THEN -a ELSE a

Take(s, n) == SubSeq(s, 1, Min(n, Len(s)))

Drop(s, n) == SubSeq(s, Min(n, Len(s)) + 1, Len(s))

Range(s) == {s[i] : i \in 1..Len(s)}

\* f64::round of the non-negative quotient num / den: half away from zero
RoundDiv(num, den) == (2 * num + den) \div (2 * den)

\* `as usize` of the non-negative quotient num / den: truncation
TruncDiv(num, den) == num \div den

\* quotient of integers truncated towards zero
QuotTowardsZero(num, den) == IF num >= 0 THEN num \div den ELSE -((-num) \div den)

(***************************************************************************)
(* Solution and Objective: the consumed contracts.  A solution has a       *)
(* fitness and a weight; the objective orders solutions by fitness, lower  *)
(* being better.  The driver offers one solution per fitness value.        *)
(***************************************************************************)
Solutions ==
    {s \in [fitness : 1..MaxFit, weights : 0..MaxW] : s.weights = s.fitness % (MaxW + 1)}

total_order(a, b) ==
    IF a.fitness < b.fitness THEN "Less"
    ELSE IF a.fitness = b.fitness THEN "Equal"
    ELSE "Greater"

\* HeuristicSolution::deep_copy
deep_copy(individual) == individual

\* HeuristicSolution::get_fitness
get_fitness(individual) == individual.fitness

(***************************************************************************)
(* Elitism: the bounded archive, kept sorted by the total order (rank 0    *)
(* first), holding one member per class of Equal solutions.                *)
(***************************************************************************)
\* rank (1-based) at which individual enters the archive
InsertPos(individuals, individual) ==
    1 + Cardinality({i \in 1..Len(individuals) :
                        total_order(individuals[i], individual) = "Less"})

HasEqual(individuals, individual) ==
    \E i \in 1..Len(individuals) : total_order(individuals[i], individual) = "Equal"

\* Elitism::add: the archive afterwards and the improvement flag
Elitism_add(individuals, max_population_size, individual) ==
    LET p == InsertPos(individuals, individual)
        grown == Take(individuals, p - 1) \o <<individual>> \o Drop(individuals, p - 1)
    IN  IF HasEqual(individuals, individual) \/ p > max_population_size
        THEN [individuals |-> individuals, improved |-> FALSE]
        ELSE [individuals |-> Take(grown, max_population_size),
              improved |-> (p = 1 \/ Len(individuals) = max_population_size)]

\* Elitism::add_all: repeated add, improved when some add improved
RECURSIVE Elitism_add_all(_, _, _)
Elitism_add_all(individuals, max_population_size, batch) ==
    IF batch = <<>>
    THEN [individuals |-> individuals, improved |-> FALSE]
    ELSE LET first == Elitism_add(individuals, max_population_size, Head(batch))
             rest == Elitism_add_all(first.individuals, max_population_size, Tail(batch))
         IN  [individuals |-> rest.individuals,
              improved |-> (first.improved \/ rest.improved)]

\* Elitism::select: up to selection_size members, best rank first
Elitism_select(individuals, selection_size) == Take(individuals, selection_size)

\* Elitism::ranked: (individual, rank) pairs, best first, ranks from 0
Elitism_ranked(individuals) == [i \in 1..Len(individuals) |-> <<individuals[i], i - 1>>]

\* Elitism::size
Elitism_size(individuals) == Len(individuals)

\* Elitism::cmp
Elitism_cmp(a, b) == total_order(a, b)

(***************************************************************************)
(* relative_distance and compare_floats.  A distance is the exact fraction *)
(* <<numerator, denominator>> with a positive denominator.                 *)
(***************************************************************************)
\* relative_distance of two one-component fitness vectors:
\* |a - b| / max(|a|, |b|, eps), zero against zero being 0
relative_distance(a, b) ==
    IF Max(Abs(a), Abs(b)) = 0 THEN <<0, 1>> ELSE <<Abs(a - b), Max(Abs(a), Abs(b))>>

\* compare_floats on two distances
compare_floats(a, b) ==
    IF a[1] * b[2] < b[1] * a[2] THEN "Less"
    ELSE IF a[1] * b[2] = b[1] * a[2] THEN "Equal"
    ELSE "Greater"

(***************************************************************************)
(* IndividualInput and IndividualStorage: the envelope of an individual    *)
(* on the map and the node-local archive.                                  *)
(***************************************************************************)
\* IndividualInput::new
IndividualInput_new(individual) ==
    [weights |-> individual.weights, individual |-> individual]

\* IndividualStorageFactory::eval: an empty archive of capacity node_size
\* (shuffle_objective permutes the priorities of a one-component fitness,
\* which leaves the order as it is)
IndividualStorageFactory_eval == <<>>

\* IndividualStorage::add
IndividualStorage_add(population, node_size, input) ==
    Elitism_add(population, node_size, input.individual).individuals

\* IndividualStorage::drain(0..): every member, as inputs
IndividualStorage_drain(population) ==
    [i \in 1..Len(population) |-> IndividualInput_new(population[i])]

\* IndividualStorage::size
IndividualStorage_size(population) == Elitism_size(population)

(***************************************************************************)
(* The GSOM network: nodes on integer coordinates <<x, y>>, each with a    *)
(* weight, an accumulated error (in 1/ErrorUnit), a local archive and the  *)
(* generation of its last hit.                                             *)
(***************************************************************************)
ErrorUnit == 10000

\* -d * ln(1 - spread_factor) for d = 1 and spread_factor = 0.25, in 1/ErrorUnit
GrowthThreshold == 2877

\* coordinates compared lexicographically
CoordLess(a, b) == a[1] < b[1] \/ (a[1] = b[1] /\ a[2] < b[2])

RECURSIVE SortedCoords(_)
SortedCoords(cs) ==
    IF cs = {} THEN <<>>
    ELSE LET m == CHOOSE c \in cs : \A d \in cs : d = c \/ CoordLess(c, d)
         IN  <<m>> \o SortedCoords(cs \ {m})

Cardinal(c) ==
    {<<c[1] - 1, c[2]>>, <<c[1] + 1, c[2]>>, <<c[1], c[2] - 1>>, <<c[1], c[2] + 1>>}

SeedCoords == <<<<0, 0>>, <<0, 1>>, <<1, 0>>, <<1, 1>>>>

\* Network::new: the 2x2 seed, one node per seed input, holding that input
Network_new(inputs, netConfig, node_size) ==
    [nodes |-> [c \in Range(SeedCoords) |->
                    LET i == CHOOSE k \in 1..4 : SeedCoords[k] = c
                    IN  [weights |-> inputs[i].weights,
                         error |-> 0,
                         population |-> IndividualStorage_add(
                                            IndividualStorageFactory_eval, node_size, inputs[i]),
                         last_hit |-> 0]],
     time |-> 0,
     node_size |-> node_size,
     learning_rate |-> netConfig.learning_rate,
     distribution_factor |-> netConfig.distribution_factor]

\* Network::size
Network_size(network) == Cardinality(DOMAIN network.nodes)

\* Network::iter / Network::get_nodes: a stable order of the coordinates
Network_iter(network) == SortedCoords(DOMAIN network.nodes)

\* Network::get_current_time
Network_get_current_time(network) == network.time

\* Node::get_last_hits: the age of the last hit
Node_get_last_hits(node, current_time) == current_time - node.last_hit

\* the best-matching unit: the node nearest to the weights, the first in
\* iteration order among equally near ones
FindBmu(network, weights) ==
    LET best == {c \in DOMAIN network.nodes :
                    \A d \in DOMAIN network.nodes :
                        Abs(network.nodes[c].weights - weights)
                            <= Abs(network.nodes[d].weights - weights)}
    IN  CHOOSE c \in best : \A d \in best : d = c \/ CoordLess(c, d)

\* w + rate * (input - w), rate in 1/10000, quantised towards w
Learn(w, input, rate) == w + QuotTowardsZero(rate * (input - w), 10000)

\* weight of the node grown at c next to bmu: mirrored across bmu from the
\* opposite neighbour, else the midpoint towards the node beyond c, else a copy
GrownWeight(nodes, bmu, c) ==
    LET opposite == <<2 * bmu[1] - c[1], 2 * bmu[2] - c[2]>>
        beyond == <<2 * c[1] - bmu[1], 2 * c[2] - bmu[2]>>
    IN  IF opposite \in DOMAIN nodes
        THEN 2 * nodes[bmu].weights - nodes[opposite].weights
        ELSE IF beyond \in DOMAIN nodes
        THEN QuotTowardsZero(nodes[bmu].weights + nodes[beyond].weights, 2)
        ELSE nodes[bmu].weights

\* Network::store: train on one input at the given generation
Network_store(network, input, generation) ==
    IF DOMAIN network.nodes = {} THEN network
    ELSE
    LET nodes == network.nodes
        bmu == FindBmu(network, input.weights)
        d == Abs(nodes[bmu].weights - input.weights)
        err == nodes[bmu].error + d * d * ErrorUnit
        trained == [c \in DOMAIN nodes |->
            IF c = bmu
            THEN [weights |-> Learn(nodes[c].weights, input.weights,
                                    network.learning_rate * 100),
                  error |-> err,
                  population |-> IndividualStorage_add(nodes[c].population,
                                                       network.node_size, input),
                  last_hit |-> generation]
            ELSE IF c \in Cardinal(bmu)
            THEN [nodes[c] EXCEPT !.weights =
                      Learn(@, input.weights,
                            network.learning_rate * network.distribution_factor)]
            ELSE nodes[c]]
        grows == err > GrowthThreshold
        missing == IF grows THEN Cardinal(bmu) \ DOMAIN nodes ELSE {}
    IN  [network EXCEPT
            !.nodes = [c \in DOMAIN nodes \cup missing |->
                IF c \in missing
                THEN [weights |-> GrownWeight(trained, bmu, c),
                      error |-> 0,
                      population |-> IndividualStorageFactory_eval,
                      last_hit |-> generation]
                ELSE IF c = bmu /\ grows
                THEN [trained[c] EXCEPT !.error = GrowthThreshold \div 2]
                ELSE trained[c]],
            !.time = Max(@, generation)]

\* Network::store_batch: store applied to each item in order
RECURSIVE Network_store_batch(_, _, _)
Network_store_batch(network, inputs, generation) ==
    IF inputs = <<>> THEN network
    ELSE Network_store_batch(Network_store(network, Head(inputs), generation),
                             Tail(inputs), generation)

\* every input held by the nodes at the coordinates cs, in that order
RECURSIVE DrainNodes(_, _)
DrainNodes(nodes, cs) ==
    IF cs = <<>> THEN <<>>
    ELSE IndividualStorage_drain(nodes[Head(cs)].population) \o DrainNodes(nodes, Tail(cs))

\* one retraining pass: every held input and the pending ones are fed again
RetrainPass(network, pending) ==
    LET held == DrainNodes(network.nodes, Network_iter(network))
        emptied == [network EXCEPT
                       !.nodes = [c \in DOMAIN network.nodes |->
                                     [network.nodes[c] EXCEPT !.population = <<>>]]]
    IN  Network_store_batch(emptied, pending \o held, network.time)

RECURSIVE RetrainPasses(_, _, _)
RetrainPasses(network, pending, count) ==
    IF count = 0 THEN network
    ELSE RetrainPasses(RetrainPass(network, pending), <<>>, count - 1)

\* Network::retrain: the nodes in `kept` survive, the inputs of the others
\* are drained and fed again, rebalance_count times
Network_retrain(network, rebalance_count, kept) ==
    LET removed == DOMAIN network.nodes \ kept
        drained == DrainNodes(network.nodes, SortedCoords(removed))
        compact == [network EXCEPT
                       !.nodes = [c \in DOMAIN network.nodes \cap kept |-> network.nodes[c]]]
    IN  RetrainPasses(compact, drained, rebalance_count)

(***************************************************************************)
(* Sorting and shuffling of the coordinate list.                           *)
(***************************************************************************)
\* the three comparators handed to sort_by: distances descending
\* (optimize_network), coordinates by distance and by last hit (fill_populations)
SortLess(a, b, order) ==
    CASE order = "distance descending" -> compare_floats(b, a) = "Less"
      [] order = "by distance" -> compare_floats(a[2], b[2]) = "Less"
      [] order = "by last hit" -> a[3] < b[3]

\* slice::sort_by (stable) under the strict order SortLess of the given order
SortBy(s, order) ==
    LET Less(a, b) == SortLess(a, b, order)
        rank(i) == 1 + Cardinality({j \in 1..Len(s) :
                        Less(s[j], s[i]) \/ (~Less(s[i], s[j]) /\ j < i)})
    IN  [k \in 1..Len(s) |-> s[CHOOSE i \in 1..Len(s) : rank(i) = k]]

Swap(s, i, j) == [s EXCEPT ![i] = s[j], ![j] = s[i]]

\* the loop of SliceRandom::shuffle / partial_shuffle: for i from `from` down
\* to `to` + 1 (1-based), swap position i with a random position 1..i
RECURSIVE ShuffleLoop(_, _, _)
ShuffleLoop(s, from, to) ==
    IF from <= to THEN {s}
    ELSE UNION {ShuffleLoop(Swap(s, from, j), from - 1, to) : j \in 1..from}

\* SliceRandom::shuffle: every outcome
shuffle(s) == ShuffleLoop(s, Len(s), 1)

\* SliceRandom::partial_shuffle: every outcome; the last `amount` positions
\* receive the randomly chosen elements
partial_shuffle(s, amount) ==
    ShuffleLoop(s, Len(s), IF amount >= Len(s) THEN 0 ELSE Len(s) - amount)

\* the draws of one shuffle over a slice of length len: draws[i] is the
\* position 1..i the random source returns when the loop stands at i
RECURSIVE ShuffleDraws(_)
ShuffleDraws(len) ==
    IF len = 0 THEN {<<>>}
    ELSE {Append(draws, j) : draws \in ShuffleDraws(len - 1), j \in 1..len}

\* the loop of SliceRandom::shuffle / partial_shuffle with its draws given
RECURSIVE ShuffleLoopWith(_, _, _, _)
ShuffleLoopWith(s, from, to, draws) ==
    IF from <= to THEN s
    ELSE ShuffleLoopWith(Swap(s, from, draws[from]), from - 1, to, draws)

(***************************************************************************)
(* HeuristicStatistics as the driver passes them to on_generation.         *)
(***************************************************************************)
Moderate == [kind |-> "Moderate", ratio |-> 100]

Slow(ratio) == [kind |-> "Slow", ratio |-> ratio]

TerminationEstimates == {70, 90}

ImprovementRatios == {0, 30}

Speeds == {Moderate, Slow(50)}

Statistics ==
    [generation : 0..MaxGen,
     termination_estimate : TerminationEstimates,
     improvement_1000_ratio : ImprovementRatios,
     speed : Speeds]

\* 1 - 1 / (1 + e^(-10 * (x - 0.5))) in 1/100000, x the estimate in percent
Sigmoid(x) ==
    CASE x <= 0 -> 99331
      [] x = 50 -> 50000
      [] x = 70 -> 11920
      [] x = 90 -> 1799
      [] x = 95 -> 1099
      [] OTHER -> 669

(***************************************************************************)
(* Rosomaxa.                                                               *)
(***************************************************************************)
\* RosomaxaConfig; the factors and ratios in percent
Config(selection_size, elite_size, node_size) ==
    [selection_size |-> selection_size,
     elite_size |-> elite_size,
     node_size |-> node_size,
     spread_factor |-> 25,
     distribution_factor |-> 25,
     learning_rate |-> 10,
     rebalance_memory |-> 1,
     rebalance_count |-> 2,
     exploration_ratio |-> 90]

\* the configurations handed to Rosomaxa::new: two it accepts and, around
\* the thresholds, those it refuses
Configs ==
    {Config(7, 2, 2), Config(2, 1, 1),
     Config(1, 2, 2), Config(7, 0, 2), Config(7, 2, 0), Config(1, 0, 0)}

\* Rosomaxa::new with the selection size tested against 1 instead of 2
Rosomaxa_new_one(cfg) ==
    IF cfg.elite_size < 1 \/ cfg.node_size < 1 \/ cfg.selection_size < 1
    THEN [result |-> "Err", elite |-> <<>>, phase |-> [kind |-> "None"]]
    ELSE [result |-> "Ok",
          elite |-> <<>>,
          phase |-> [kind |-> "Initial", solutions |-> <<>>]]

\* Rosomaxa::new
Rosomaxa_new(cfg) ==
    IF cfg.elite_size < 1 \/ cfg.node_size < 1 \/ cfg.selection_size < 2
    THEN [result |-> "Err", elite |-> <<>>, phase |-> [kind |-> "None"]]
    ELSE [result |-> "Ok",
          elite |-> <<>>,
          phase |-> [kind |-> "Initial", solutions |-> <<>>]]

\* the elite archive built with the two sizes in the other order
elite_max_population_size_swapped == config.selection_size

\* the capacity and the selection size Rosomaxa::new gives the elite archive
elite_max_population_size == config.elite_size

elite_selection_size == config.selection_size

\* is_comparable_with_best_known that lets only a strictly better one pass
is_comparable_with_best_known_strict(individual, best_known) ==
    IF best_known = <<>> THEN TRUE
    ELSE total_order(individual, best_known[1]) = "Less"

\* Rosomaxa::is_comparable_with_best_known; best_known is <<>> for None
is_comparable_with_best_known(individual, best_known) ==
    IF best_known = <<>> THEN TRUE
    ELSE total_order(individual, best_known[1]) # "Greater"

\* self.elite.ranked().map(|(i, _)| i).next()
BestKnown == Take([i \in 1..Len(elite) |-> Elitism_ranked(elite)[i][1]], 1)

\* the arms of the match at the end of Rosomaxa::add, for the phase store
\* given: the buffer grows, the network stores, Exploitation keeps nothing
route_individual(store, individual) ==
    CASE store.kind = "Initial" ->
            [store EXCEPT !.solutions = Append(@, individual)]
      [] store.kind = "Exploration" ->
            [store EXCEPT !.network =
                Network_store(@, IndividualInput_new(individual),
                              store.statistics.generation)]
      [] store.kind = "Exploitation" -> store

\* the routing of add done only for an individual that passed the filter
add_route_if_accepted(individual) ==
    IF ~is_comparable_with_best_known(individual, BestKnown) THEN phase
    ELSE CASE phase.kind = "Initial" ->
                [phase EXCEPT !.solutions = Append(@, individual)]
          [] phase.kind = "Exploration" ->
                [phase EXCEPT !.network =
                    Network_store(@, IndividualInput_new(individual),
                                  phase.statistics.generation)]
          [] phase.kind = "Exploitation" -> phase

\* the match on the phase at the end of Rosomaxa::add
add_route(individual) == route_individual(phase, individual)

\* the first half of add with a passing individual put in front of the
\* archive by add itself
add_elite_pushing(individual) ==
    LET comparable == is_comparable_with_best_known(individual, BestKnown)
    IN  [elite |-> IF comparable
                   THEN Take(<<deep_copy(individual)>> \o elite, elite_max_population_size)
                   ELSE elite,
         is_improved |-> comparable,
         elite_args |-> IF comparable THEN <<deep_copy(individual)>> ELSE <<>>]

\* the first half of Rosomaxa::add: the elite archive afterwards, the flag
\* and what was handed to the archive
add_elite(individual) ==
    LET comparable == is_comparable_with_best_known(individual, BestKnown)
        into_elite == Elitism_add(elite, elite_max_population_size, deep_copy(individual))
    IN  [elite |-> IF comparable THEN into_elite.individuals ELSE elite,
         is_improved |-> IF comparable THEN into_elite.improved ELSE FALSE,
         elite_args |-> IF comparable THEN <<deep_copy(individual)>> ELSE <<>>]

\* Rosomaxa::add: the archive and phase afterwards, the returned flag and
\* what was handed to the elite archive
add(individual) ==
    LET archive == add_elite(individual)
    IN  [elite |-> archive.elite,
         is_improved |-> archive.is_improved,
         elite_args |-> archive.elite_args,
         phase |-> add_route(individual)]

\* the routing of add_all that also drops the coordinate list
add_all_route_clearing(individuals) ==
    CASE phase.kind = "Initial" ->
            [phase EXCEPT !.solutions = @ \o individuals]
      [] phase.kind = "Exploration" ->
            [phase EXCEPT !.network =
                Network_store_batch(@,
                    [i \in 1..Len(individuals) |-> IndividualInput_new(individuals[i])],
                    phase.statistics.generation),
                          !.coordinates = <<>>]
      [] phase.kind = "Exploitation" -> phase

\* the match on the phase at the end of Rosomaxa::add_all
add_all_route(individuals) ==
    CASE phase.kind = "Initial" ->
            [phase EXCEPT !.solutions = @ \o individuals]
      [] phase.kind = "Exploration" ->
            [phase EXCEPT !.network =
                Network_store_batch(@,
                    [i \in 1..Len(individuals) |-> IndividualInput_new(individuals[i])],
                    phase.statistics.generation)]
      [] phase.kind = "Exploitation" -> phase

\* the filter of add_all with the best known individual updated along the
\* batch, as a sequence of add calls would see it
add_all_filter_running(individuals) ==
    LET RECURSIVE walk(_, _)
        walk(k, best) ==
            IF k > Len(individuals) THEN <<>>
            ELSE IF is_comparable_with_best_known(individuals[k], best)
                 THEN <<deep_copy(individuals[k])>> \o walk(k + 1, <<individuals[k]>>)
                 ELSE walk(k + 1, best)
    IN  walk(1, BestKnown)

\* the elements of the batch that pass the filter, in batch order
add_all_filter(individuals) ==
    LET keep == {i \in 1..Len(individuals) :
                    is_comparable_with_best_known(individuals[i], BestKnown)}
        nth(k) == CHOOSE i \in keep : Cardinality({j \in keep : j < i}) = k - 1
    IN  [k \in 1..Cardinality(keep) |-> deep_copy(individuals[nth(k)])]

\* add_all handing only the first passing element to the elite archive
add_all_first_only(individuals) ==
    LET passing == Take(add_all_filter(individuals), 1)
        into_elite == Elitism_add_all(elite, elite_max_population_size, passing)
    IN  [elite |-> into_elite.individuals,
         is_improved |-> into_elite.improved,
         elite_args |-> passing,
         phase |-> add_all_route(individuals)]

\* Rosomaxa::add_all
add_all(individuals) ==
    LET passing == add_all_filter(individuals)
        into_elite == Elitism_add_all(elite, elite_max_population_size, passing)
    IN  [elite |-> into_elite.individuals,
         is_improved |-> into_elite.improved,
         elite_args |-> passing,
         phase |-> add_all_route(individuals)]

\* the selection size cut to an integer without rounding
speed_selection_size_truncated(statistics) ==
    IF statistics.speed.kind = "Slow"
    THEN TruncDiv(Max(config.selection_size * statistics.speed.ratio, 100), 100)
    ELSE config.selection_size

\* the selection size of update_phase
speed_selection_size(statistics) ==
    IF statistics.speed.kind = "Slow"
    THEN RoundDiv(Max(config.selection_size * statistics.speed.ratio, 100), 100)
    ELSE config.selection_size

\* create_network expecting three individuals
create_network_of_three(individuals) ==
    LET inputs_vec == [i \in 1..Len(individuals) |-> IndividualInput_new(individuals[i])]
    IN  IF Len(inputs_vec) # 3
        THEN [panic |-> "expected individuals of length 4"]
        ELSE [panic |-> "none",
              network |-> Network_new(inputs_vec,
                              [learning_rate |-> config.learning_rate,
                               distribution_factor |-> config.distribution_factor],
                              config.node_size)]

\* Rosomaxa::create_network
create_network(individuals) ==
    LET inputs_vec == [i \in 1..Len(individuals) |-> IndividualInput_new(individuals[i])]
    IN  IF Len(inputs_vec) # 4
        THEN [panic |-> "expected individuals of length 4"]
        ELSE [panic |-> "none",
              network |-> Network_new(inputs_vec,
                              [learning_rate |-> config.learning_rate,
                               distribution_factor |-> config.distribution_factor],
                              config.node_size)]

\* keep_size of Rosomaxa::optimize_network
keep_size(statistics, rebalance_memory) ==
    LET v == statistics.improvement_1000_ratio
    IN  IF v > 20
        THEN LET x == Min(Max(statistics.termination_estimate, 0), 100)
             IN  TruncDiv(rebalance_memory * 100000 + rebalance_memory * Sigmoid(x), 100000)
        ELSE IF v > 10 THEN 2 * rebalance_memory
        ELSE IF v > 1 THEN 3 * rebalance_memory
        ELSE 4 * rebalance_memory

\* get_distance of optimize_network: <<distance>>, or <<>> for an empty node
get_distance(node, best_fitness) ==
    LET individual == Take(Elitism_select(node.population, Len(node.population)), 1)
    IN  IF individual = <<>> THEN <<>>
        ELSE <<relative_distance(best_fitness, get_fitness(individual[1]))>>

\* the distances of the nodes that have one, sorted descending
sorted_distances(network, best_fitness) ==
    LET cs == Network_iter(network)
        RECURSIVE collect(_)
        collect(k) == IF k > Len(cs) THEN <<>>
                      ELSE get_distance(network.nodes[cs[k]], best_fitness) \o collect(k + 1)
    IN  SortBy(collect(1), "distance descending")

\* percentile_idx of optimize_network (0-based)
percentile_idx(len, keep) ==
    IF len > keep THEN len - keep ELSE TruncDiv(len * 75, 100)

\* a keep predicate that accepts up to the threshold
kept_nodes_inclusive(network, best_fitness, distance_threshold) ==
    {c \in DOMAIN network.nodes :
        LET distance == get_distance(network.nodes[c], best_fitness)
        IN  IF distance = <<>> THEN FALSE
            ELSE compare_floats(distance[1], distance_threshold) # "Greater"}

\* the nodes the keep predicate handed to retrain accepts
kept_nodes(network, best_fitness, distance_threshold) ==
    {c \in DOMAIN network.nodes :
        LET distance == get_distance(network.nodes[c], best_fitness)
        IN  IF distance = <<>> THEN FALSE
            ELSE compare_floats(distance[1], distance_threshold) = "Less"}

\* optimize_network returning early only when both tests hold
optimize_network_both(network, statistics, best_fitness, rebalance_memory, rebalance_count) ==
    LET keep == keep_size(statistics, rebalance_memory)
        distances == sorted_distances(network, best_fitness)
        idx == percentile_idx(Len(distances), keep)
    IN  IF statistics.generation = 0 /\ Network_size(network) <= keep
        THEN network
        ELSE IF idx + 1 <= Len(distances)
        THEN Network_retrain(network, rebalance_count,
                             kept_nodes(network, best_fitness, distances[idx + 1]))
        ELSE network

\* Rosomaxa::optimize_network
optimize_network(network, statistics, best_fitness, rebalance_memory, rebalance_count) ==
    LET keep == keep_size(statistics, rebalance_memory)
        distances == sorted_distances(network, best_fitness)
        idx == percentile_idx(Len(distances), keep)
    IN  IF statistics.generation = 0 \/ Network_size(network) <= keep
        THEN network
        ELSE IF idx + 1 <= Len(distances)
        THEN Network_retrain(network, rebalance_count,
                             kept_nodes(network, best_fitness, distances[idx + 1]))
        ELSE network

\* a shuffle amount of half the length whatever the statistics say
calculate_shuffle_amount_always_half(statistics, length) == RoundDiv(length, 2)

\* Rosomaxa::calculate_shuffle_amount
calculate_shuffle_amount(statistics, length) ==
    LET v == statistics.improvement_1000_ratio
        \* the ratio in 1/100000
        ratio == IF v > 50
                 THEN Min(Max(Sigmoid(statistics.termination_estimate) \div 2, 10000), 50000)
                 ELSE IF v > 20 THEN 50000
                 ELSE 100000
    IN  RoundDiv(length * ratio, 100000)

\* the coordinate list with an entry for every node, empty or not
collect_coordinates_all(network, best_fitness) ==
    LET cs == Network_iter(network)
    IN  [k \in 1..Len(cs) |->
            LET node == network.nodes[cs[k]]
                individual == Take(Elitism_select(node.population, Len(node.population)), 1)
            IN  <<cs[k],
                  IF individual = <<>> THEN relative_distance(best_fitness, best_fitness)
                  ELSE relative_distance(best_fitness, get_fitness(individual[1])),
                  Node_get_last_hits(node, Network_get_current_time(network))>>]

\* the coordinate list before it is ordered: one entry per non-empty node
collect_coordinates(network, best_fitness) ==
    LET cs == Network_iter(network)
        RECURSIVE collect(_)
        collect(k) ==
            IF k > Len(cs) THEN <<>>
            ELSE LET node == network.nodes[cs[k]]
                     individual == Take(Elitism_select(node.population, Len(node.population)), 1)
                 IN  (IF individual = <<>> THEN <<>>
                      ELSE <<<<cs[k],
                               relative_distance(best_fitness, get_fitness(individual[1])),
                               Node_get_last_hits(node, Network_get_current_time(network))>>>>)
                     \o collect(k + 1)
    IN  collect(1)

\* the ordering that never asks the coin and always sorts by distance
order_coordinates_no_coin(coordinates, statistics, is_head, draws) ==
    LET shuffle_amount == calculate_shuffle_amount(statistics, Len(coordinates))
    IN  IF shuffle_amount # Len(coordinates)
        THEN ShuffleLoopWith(SortBy(coordinates, "by distance"),
                             Len(coordinates), Len(coordinates) - shuffle_amount, draws)
        ELSE ShuffleLoopWith(coordinates, Len(coordinates), 1, draws)

\* the second half of Rosomaxa::fill_populations, the ordering of the
\* collected list, with the values of the random source given: is_head is
\* what is_head_not_tails returns, draws what the rng returns to the shuffle
order_coordinates(coordinates, statistics, is_head, draws) ==
    LET shuffle_amount == calculate_shuffle_amount(statistics, Len(coordinates))
    IN  IF shuffle_amount # Len(coordinates)
        THEN ShuffleLoopWith(SortBy(coordinates,
                                    IF is_head THEN "by distance" ELSE "by last hit"),
                             Len(coordinates),
                             IF shuffle_amount >= Len(coordinates) THEN 0
                             ELSE Len(coordinates) - shuffle_amount,
                             draws)
        ELSE ShuffleLoopWith(coordinates, Len(coordinates), 1, draws)

\* Rosomaxa::fill_populations: every coordinate list the random source allows
fill_populations(network, best_fitness, statistics) ==
    LET coordinates == collect_coordinates(network, best_fitness)
        shuffle_amount == calculate_shuffle_amount(statistics, Len(coordinates))
    IN  IF shuffle_amount # Len(coordinates)
        THEN partial_shuffle(SortBy(coordinates, "by distance"), shuffle_amount)
                \cup partial_shuffle(SortBy(coordinates, "by last hit"), shuffle_amount)
        ELSE shuffle(coordinates)

\* the seeding started as soon as three individuals are buffered
seed_ready_three(individuals) == Len(individuals) >= 3

\* update_phase, Initial: the buffer holds enough individuals to seed the map
seed_ready(individuals) == Len(individuals) >= 4

\* the seeds taken from the end of the buffer
seed_split_last(individuals) ==
    [seeds |-> Drop(individuals, Len(individuals) - 4),
     rest |-> Take(individuals, Len(individuals) - 4)]

\* update_phase, Initial: drain(0..4) seeds the map, drain(0..) is the rest
seed_split(individuals) ==
    [seeds |-> Take(individuals, 4), rest |-> Drop(individuals, 4)]

\* update_phase, Exploration: the exploration ratio, in 1/10000
effective_exploration_ratio(old_statistics) ==
    IF old_statistics.speed.kind = "Slow"
    THEN config.exploration_ratio * old_statistics.speed.ratio
    ELSE config.exploration_ratio * 100

\* the test that keeps the phase with the bound included
keeps_exploring_inclusive(statistics, exploration_ratio) ==
    statistics.termination_estimate * 100 <= exploration_ratio

\* update_phase, Exploration: the test that keeps the phase
keeps_exploring(statistics, exploration_ratio) ==
    statistics.termination_estimate * 100 < exploration_ratio

\* the phase entered with the coordinates of the seeded network collected
enter_exploration_refilled(network, statistics, selection_size) ==
    [kind |-> "Exploration",
     network |-> network,
     coordinates |-> collect_coordinates(network, get_fitness(elite[1])),
     statistics |-> statistics,
     selection_size |-> selection_size]

\* update_phase, Initial: the Exploration phase that replaces the buffer
enter_exploration(network, statistics, selection_size) ==
    [kind |-> "Exploration",
     network |-> network,
     coordinates |-> <<>>,
     statistics |-> statistics,
     selection_size |-> selection_size]

\* an Exploitation that starts over with an empty buffer
exploitation_step_restarting(selection_size) == [kind |-> "Initial", solutions |-> <<>>]

\* update_phase, Exploitation: only the stored selection_size is replaced
exploitation_step(selection_size) == [phase EXCEPT !.selection_size = selection_size]

\* Rosomaxa::update_phase: every phase (and panic) the call can end with
update_phase(statistics) ==
    LET selection_size == speed_selection_size(statistics)
    IN  CASE phase.kind = "Initial" ->
            IF seed_ready(phase.solutions)
            THEN LET split == seed_split(phase.solutions)
                     created == create_network(split.seeds)
                     rest == split.rest
                 IN  IF created.panic # "none"
                     THEN {[phase |-> phase, panic |-> created.panic]}
                     ELSE {[phase |->
                               enter_exploration(
                                   Network_store_batch(created.network,
                                       [i \in 1..Len(rest) |-> IndividualInput_new(rest[i])], 0),
                                   statistics, selection_size),
                            panic |-> "none"]}
            ELSE {[phase |-> phase, panic |-> "none"]}
          [] phase.kind = "Exploration" ->
            LET exploration_ratio == effective_exploration_ratio(phase.statistics)
            IN  IF keeps_exploring(statistics, exploration_ratio)
                THEN LET best_individual == Take(Elitism_select(elite, elite_selection_size), 1)
                     IN  IF best_individual = <<>>
                         THEN {[phase |-> [phase EXCEPT !.statistics = statistics,
                                                        !.selection_size = selection_size],
                                panic |-> "expected individuals in elite"]}
                         ELSE LET best_fitness == get_fitness(best_individual[1])
                                  network == optimize_network(phase.network, statistics,
                                                 best_fitness, config.rebalance_memory,
                                                 config.rebalance_count)
                              IN  {[phase |->
                                       [kind |-> "Exploration",
                                        network |-> network,
                                        coordinates |-> coordinates,
                                        statistics |-> statistics,
                                        selection_size |-> selection_size],
                                    panic |-> "none"] :
                                   coordinates \in
                                       fill_populations(network, best_fitness, statistics)}
                ELSE {[phase |-> [kind |-> "Exploitation", selection_size |-> selection_size],
                       panic |-> "none"]}
          [] phase.kind = "Exploitation" ->
            {[phase |-> exploitation_step(selection_size), panic |-> "none"]}

\* the size table with every bound off by one
explore_sizes_shifted(selection_size, elite_draw) ==
    IF selection_size >= 6 THEN <<elite_draw, 2>>
    ELSE IF selection_size >= 4 THEN <<2, 2>>
    ELSE IF selection_size >= 2 THEN <<2, 1>>
    ELSE <<1, 1>>

\* (elite_explore_size, node_explore_size) of Rosomaxa::select
explore_sizes(selection_size, elite_draw) ==
    IF selection_size > 6 THEN <<elite_draw, 2>>
    ELSE IF selection_size > 4 THEN <<2, 2>>
    ELSE IF selection_size > 2 THEN <<2, 1>>
    ELSE <<1, 1>>

\* a yielded reference: the individual and the archive it lives in
FromElite(individuals) ==
    [i \in 1..Len(individuals) |->
        [individual |-> individuals[i], archive |-> "elite", coordinate |-> <<>>]]

FromNode(individuals, coordinate) ==
    [i \in 1..Len(individuals) |->
        [individual |-> individuals[i], archive |-> "node", coordinate |-> coordinate]]

\* Rosomaxa::select without the final take(selection_size) of Exploration
select_untruncated(elite_draw, node_draws) ==
    CASE phase.kind = "Exploration" ->
            LET sizes == explore_sizes(phase.selection_size, elite_draw)
                network == phase.network
                RECURSIVE flat_map(_)
                flat_map(k) ==
                    IF k > Len(phase.coordinates) THEN <<>>
                    ELSE LET coordinate == phase.coordinates[k][1]
                         IN  (IF coordinate \in DOMAIN network.nodes
                              THEN FromNode(
                                      Take(Elitism_select(network.nodes[coordinate].population,
                                                          network.node_size),
                                           node_draws[k]),
                                      coordinate)
                              ELSE <<>>)
                             \o flat_map(k + 1)
            IN  FromElite(Take(Elitism_select(elite, elite_selection_size), sizes[1]))
                    \o flat_map(1)
      [] phase.kind = "Exploitation" ->
            Take(FromElite(Elitism_select(elite, elite_selection_size)),
                 phase.selection_size)
      [] OTHER -> FromElite(Elitism_select(elite, elite_selection_size))

\* Rosomaxa::select: the yielded sequence, given the value uniform_int(2, 4)
\* returns and the values uniform_int(1, node_explore_size) returns per coordinate
select(elite_draw, node_draws) ==
    CASE phase.kind = "Exploration" ->
            LET sizes == explore_sizes(phase.selection_size, elite_draw)
                network == phase.network
                RECURSIVE flat_map(_)
                flat_map(k) ==
                    IF k > Len(phase.coordinates) THEN <<>>
                    ELSE LET coordinate == phase.coordinates[k][1]
                         IN  (IF coordinate \in DOMAIN network.nodes
                              THEN FromNode(
                                      Take(Elitism_select(network.nodes[coordinate].population,
                                                          network.node_size),
                                           node_draws[k]),
                                      coordinate)
                              ELSE <<>>)
                             \o flat_map(k + 1)
            IN  Take(FromElite(Take(Elitism_select(elite, elite_selection_size), sizes[1]))
                        \o flat_map(1),
                     phase.selection_size)
      [] phase.kind = "Exploitation" ->
            Take(FromElite(Elitism_select(elite, elite_selection_size)),
                 phase.selection_size)
      [] OTHER -> FromElite(Elitism_select(elite, elite_selection_size))

\* the values the random source can return during one select call
EliteDraws ==
    IF phase.kind = "Exploration" /\ phase.selection_size > 6 THEN 2..4 ELSE {0}

\* node draws that may also be 0
NodeDraws_from_zero ==
    IF phase.kind = "Exploration"
    THEN [1..Len(phase.coordinates) ->
             0..explore_sizes(phase.selection_size, 2)[2]]
    ELSE {<<>>}

NodeDraws ==
    IF phase.kind = "Exploration"
    THEN [1..Len(phase.coordinates) ->
             1..explore_sizes(phase.selection_size, 2)[2]]
    ELSE {<<>>}

\* every sequence one select call can yield
SelectResults ==
    {select(elite_draw, node_draws) : elite_draw \in EliteDraws, node_draws \in NodeDraws}

\* a select that uses up the coordinate list it walks
read_frame_consuming(operation) ==
    [elite |-> elite,
     phase |-> IF operation = "select" /\ phase.kind = "Exploration"
               THEN [phase EXCEPT !.coordinates = <<>>]
               ELSE phase]

\* cmp, select, ranked, size and selection_phase take &self and assign no
\* field: the elite archive and the phase after the call
read_frame(operation) == [elite |-> elite, phase |-> phase]

\* Rosomaxa::size
size == Elitism_size(elite)

\* Rosomaxa::ranked
ranked == Elitism_ranked(elite)

\* Rosomaxa::selection_phase
selection_phase == phase.kind

\* Rosomaxa::cmp
cmp(a, b) == Elitism_cmp(a, b)

(***************************************************************************)
(* The solver builder (vrp-core/src/solver/builder.rs). An Option is the   *)
(* empty sequence (None) or a sequence of one value (Some).  Generations   *)
(* and seconds are counted in whole units.                                 *)
(***************************************************************************)
None == <<>>

Some(value) == <<value>>

\* MaxGeneration::new
MaxGeneration_new(limit) == [kind |-> "MaxGeneration", limit |-> limit]

\* MaxTime::new
MaxTime_new(limit) == [kind |-> "MaxTime", limit |-> limit]

\* CostVariation::new
CostVariation_new(sample, threshold) ==
    [kind |-> "CostVariation", sample |-> sample, threshold |-> threshold]

\* CompositeTermination::new
CompositeTermination_new(criterias) == [kind |-> "Composite", terminations |-> criterias]

\* create_time_quota
create_time_quota(limit) == [kind |-> "TimeQuota", limit |-> limit]

\* Builder::new: no limit is set
Builder_new == [max_generations |-> None, max_time |-> None, cost_variation |-> None]

\* Builder::with_max_generations
with_max_generations(self, limit) == [self EXCEPT !.max_generations = limit]

\* Builder::with_cost_variation
with_cost_variation(self, variation) == [self EXCEPT !.cost_variation = variation]

\* Builder::with_max_time
with_max_time(self, limit) == [self EXCEPT !.max_time = limit]

\* Builder::build: the termination and the quota of the solver
build(self) ==
    IF self.max_generations = None /\ self.max_time = None /\ self.cost_variation = None
    THEN [termination |-> CompositeTermination_new(
                              <<MaxGeneration_new(3000), MaxTime_new(300)>>),
          quota |-> None]
    ELSE [termination |-> CompositeTermination_new(
              (IF self.max_generations # None
               THEN <<MaxGeneration_new(self.max_generations[1])>>
               ELSE <<>>)
              \o (IF self.max_time # None
                  THEN <<MaxTime_new(self.max_time[1])>>
                  ELSE <<>>)
              \o (IF self.cost_variation # None
                  THEN <<CostVariation_new(self.cost_variation[1][1],
                                           self.cost_variation[1][2])>>
                  ELSE <<>>)),
          quota |-> IF self.max_time # None
                    THEN Some(create_time_quota(self.max_time[1]))
                    ELSE None]

\* Termination::is_termination on the position of a run: MaxGeneration
\* holds from its limit of generations on, MaxTime from its limit of
\* seconds on, CostVariation once the cost has settled over its sample,
\* and the composite as soon as one of its criteria holds
RECURSIVE is_termination(_, _)
is_termination(termination, run) ==
    CASE termination.kind = "MaxGeneration" -> run.generation >= termination.limit
      [] termination.kind = "MaxTime" -> run.elapsed >= termination.limit
      [] termination.kind = "CostVariation" -> run.settled
      [] OTHER -> \E i \in 1..Len(termination.terminations) :
                      is_termination(termination.terminations[i], run)

\* no solver yet
NotBuilt == [built |-> FALSE]

(***************************************************************************)
(* Borrows of the population.  select takes &'a self and returns an        *)
(* iterator of the lifetime 'a; add, add_all and on_generation take        *)
(* &mut self.  A shared borrow is alive as long as the iterator is, an     *)
(* exclusive borrow as long as the call is in flight.                      *)
(***************************************************************************)
\* no iterator alive, no mutator in flight
NoBorrows == [iterator |-> None, writers |-> {}]

\* &mut self taken whatever else is borrowed
may_borrow_mut_unchecked == TRUE

\* &mut self: no other borrow of the population is alive
may_borrow_mut == borrows.iterator = None /\ borrows.writers = {}

\* &'a self: no exclusive borrow of the population is alive
may_borrow_shared == borrows.writers = {}

(***************************************************************************)
(* The state machine: the driver's calls on one population.                *)
(***************************************************************************)
Batches == UNION {[1..n -> Solutions] : n \in 0..MaxBatch}

Alive == result = "Ok" /\ panic = "none"

Init ==
    /\ config \in Configs
    /\ result = Rosomaxa_new(config).result
    /\ elite = Rosomaxa_new(config).elite
    /\ phase = Rosomaxa_new(config).phase
    /\ panic = "none"
    /\ added = 0
    /\ builder = Builder_new
    /\ solver = NotBuilt
    /\ routes = <<>>
    /\ borrows = NoBorrows

Add ==
    /\ Alive
    /\ added < MaxAdded
    /\ \E individual \in Solutions :
        LET r == add(individual)
        IN  /\ elite' = r.elite
            /\ phase' = r.phase
    /\ added' = added + 1
    /\ UNCHANGED <<config, result, panic, builder, solver, routes, borrows>>

AddAll ==
    /\ Alive
    /\ \E individuals \in Batches :
        /\ added + Len(individuals) <= MaxAdded
        /\ LET r == add_all(individuals)
           IN  /\ elite' = r.elite
               /\ phase' = r.phase
        /\ added' = added + Len(individuals)
    /\ UNCHANGED <<config, result, panic, builder, solver, routes, borrows>>

OnGeneration ==
    /\ Alive
    /\ \E statistics \in Statistics :
        \E out \in update_phase(statistics) :
            /\ phase' = out.phase
            /\ panic' = out.panic
    /\ UNCHANGED <<config, result, elite, added, builder, solver, routes, borrows>>

\* the reads return a value and leave the population as read_frame gives it
Select ==
    /\ Alive
    /\ elite' = read_frame("select").elite
    /\ phase' = read_frame("select").phase
    /\ UNCHANGED <<config, result, panic, added, builder, solver, routes, borrows>>
    /\ SelectResults # {}

Ranked ==
    /\ Alive
    /\ elite' = read_frame("ranked").elite
    /\ phase' = read_frame("ranked").phase
    /\ UNCHANGED <<config, result, panic, added, builder, solver, routes, borrows>>
    /\ Len(ranked) >= 0

Size ==
    /\ Alive
    /\ elite' = read_frame("size").elite
    /\ phase' = read_frame("size").phase
    /\ UNCHANGED <<config, result, panic, added, builder, solver, routes, borrows>>
    /\ size >= 0

SelectionPhase ==
    /\ Alive
    /\ elite' = read_frame("selection_phase").elite
    /\ phase' = read_frame("selection_phase").phase
    /\ UNCHANGED <<config, result, panic, added, builder, solver, routes, borrows>>
    /\ selection_phase \in {"Initial", "Exploration", "Exploitation"}

Cmp ==
    /\ Alive
    /\ elite' = read_frame("cmp").elite
    /\ phase' = read_frame("cmp").phase
    /\ UNCHANGED <<config, result, panic, added, builder, solver, routes, borrows>>
    /\ {cmp(a, b) : a, b \in Solutions} # {}

Next ==
    \/ Add
    \/ AddAll
    \/ OnGeneration
    \/ Select
    \/ Ranked
    \/ Size
    \/ SelectionPhase
    \/ Cmp

Spec == Init /\ [][Next]_vars

----------------------------------------------------------------------------
(* optimize_network on its own: the network is any map of up to MaxNodes   *)
(* nodes whose best individuals have distinct fitness, as a longer run     *)
(* over a larger fitness range leaves it.                                  *)

\* the individual of a given fitness
Individual(fitness) == [fitness |-> fitness, weights |-> fitness % (MaxW + 1)]

\* coordinates of the k-th node, row by row on a grid four wide
GridCoordinate(k) == <<(k - 1) \div 4, (k - 1) % 4>>

\* the fitness of the k-th node: distinct for k in 1..MaxNodes
GridFitness(k, step, shift) == ((k * step + shift) % (MaxNodes + 1)) + 1

\* a network of n nodes, each holding one individual
GridNetwork(n, step, shift) ==
    [nodes |-> [c \in {GridCoordinate(k) : k \in 1..n} |->
                   LET k == CHOOSE i \in 1..n : GridCoordinate(i) = c
                       individual == Individual(GridFitness(k, step, shift))
                   IN  [weights |-> individual.weights,
                        error |-> 0,
                        population |-> <<individual>>,
                        last_hit |-> 0]],
     time |-> 0,
     node_size |-> 2,
     learning_rate |-> 10,
     distribution_factor |-> 25]

InitPrune ==
    /\ \E R \in {1, 2, 4} :
           config = [Config(7, 2, 2) EXCEPT !.rebalance_memory = R]
    /\ result = "Ok"
    /\ panic = "none"
    /\ added = 0
    /\ builder = Builder_new
    /\ solver = NotBuilt
    /\ routes = <<>>
    /\ borrows = NoBorrows
    /\ elite = <<Individual(1)>>
    /\ \E n \in 2..MaxNodes : \E step \in {1, 3, 5} : \E shift \in 0..MaxNodes :
           phase = [kind |-> "Exploration",
                    network |-> GridNetwork(n, step, shift),
                    coordinates |-> <<>>,
                    statistics |-> [generation |-> 0,
                                    termination_estimate |-> 70,
                                    improvement_1000_ratio |-> 0,
                                    speed |-> Moderate],
                    selection_size |-> 7]

\* the optimize_network call of update_phase, with the best of the elite;
\* the driver's generation grows from one call to the next
OptimizeNetwork ==
    /\ Alive
    /\ phase.kind = "Exploration"
    /\ \E statistics \in Statistics :
        /\ statistics.generation > phase.statistics.generation
        /\ phase' = [phase EXCEPT
                         !.statistics = statistics,
                         !.network = optimize_network(@, statistics,
                                         get_fitness(elite[1]),
                                         config.rebalance_memory,
                                         config.rebalance_count)]
    /\ UNCHANGED <<config, result, elite, panic, added, builder, solver, routes, borrows>>

NextPrune == OptimizeNetwork

SpecPrune == InitPrune /\ [][NextPrune]_vars

----------------------------------------------------------------------------
(* The builder and the run of the solver it builds: the limits are set,    *)
(* build is called, and the evolution goes on, GenerationTick generations  *)
(* or SecondsTick seconds at a time, until the termination holds.          *)

GenerationLimits == {None, Some(2000), Some(5000)}

TimeLimits == {None, Some(100), Some(600)}

CostVariations == {None, Some(<<200, 1>>)}

GenerationTick == 1000

SecondsTick == 100

\* the population and the tours, which the builder does not touch
beside_solver == <<config, result, elite, phase, panic, added, routes, borrows>>

InitBuilder ==
    /\ config = Config(7, 2, 2)
    /\ result = Rosomaxa_new(config).result
    /\ elite = Rosomaxa_new(config).elite
    /\ phase = Rosomaxa_new(config).phase
    /\ panic = "none"
    /\ added = 0
    /\ routes = <<>>
    /\ borrows = NoBorrows
    /\ builder = Builder_new
    /\ solver = NotBuilt

WithMaxGenerations ==
    /\ ~solver.built
    /\ \E limit \in GenerationLimits : builder' = with_max_generations(builder, limit)
    /\ UNCHANGED <<solver, beside_solver>>

WithMaxTime ==
    /\ ~solver.built
    /\ \E limit \in TimeLimits : builder' = with_max_time(builder, limit)
    /\ UNCHANGED <<solver, beside_solver>>

WithCostVariation ==
    /\ ~solver.built
    /\ \E variation \in CostVariations : builder' = with_cost_variation(builder, variation)
    /\ UNCHANGED <<solver, beside_solver>>

\* Builder::build, and the solver at the start of its run
Build ==
    /\ ~solver.built
    /\ solver' = [built |-> TRUE,
                  termination |-> build(builder).termination,
                  quota |-> build(builder).quota,
                  generation |-> 0,
                  elapsed |-> 0,
                  settled |-> FALSE]
    /\ UNCHANGED <<builder, beside_solver>>

\* the evolution goes on while the termination does not hold
Running == solver.built /\ ~is_termination(solver.termination, solver)

Generation ==
    /\ Running
    /\ solver.generation < MaxRunGenerations
    /\ solver' = [solver EXCEPT !.generation = @ + GenerationTick]
    /\ UNCHANGED <<builder, beside_solver>>

Clock ==
    /\ Running
    /\ solver.elapsed < MaxRunSeconds
    /\ solver' = [solver EXCEPT !.elapsed = @ + SecondsTick]
    /\ UNCHANGED <<builder, beside_solver>>

CostSettles ==
    /\ Running
    /\ ~solver.settled
    /\ solver' = [solver EXCEPT !.settled = TRUE]
    /\ UNCHANGED <<builder, beside_solver>>

NextBuilder ==
    \/ WithMaxGenerations
    \/ WithMaxTime
    \/ WithCostVariation
    \/ Build
    \/ Generation
    \/ Clock
    \/ CostSettles

SpecBuilder == InitBuilder /\ [][NextBuilder]_vars

----------------------------------------------------------------------------
(* The constrained tour order (vrp-core/src/solver/objectives/             *)
(* tour_order.rs). A Single is known by the value order_func gives it, an  *)
(* activity by its job (None for the start and the end of a tour), a tour  *)
(* by its activities in order.                                             *)

\* f64::MAX, the order of a job without an order value
f64_MAX == 1000000

\* the jobs there are: order values 1..MaxOrder, or none
Singles == {[order |-> None]} \cup {[order |-> Some(v)] : v \in 1..MaxOrder}

\* the order function given to TourOrder::new_constrained
order_func(single) == single.order

\* the activity of a job, and the activity of a start or an end
JobActivity(single) == [job |-> Some(single)]

TerminalActivity == [job |-> None]

\* get_order of evaluate_result
get_order(single) == IF order_func(single) = None THEN f64_MAX ELSE order_func(single)[1]

\* the closure TourOrderHardActivityConstraint::evaluate_activity hands to
\* evaluate_result
check_order(first, second, stopped) ==
    IF compare_floats(<<first, 1>>, <<second, 1>>) = "Greater"
    THEN Some([code |-> "constraint_code", stopped |-> stopped])
    ELSE None

\* evaluate_result that looks at the previous activity only
evaluate_result_prev_only(activity_ctx) ==
    LET prev == activity_ctx.prev.job
        target == activity_ctx.target.job
    IN  IF prev # None /\ target # None
        THEN check_order(get_order(prev[1]), get_order(target[1]), TRUE)
        ELSE None

\* evaluate_result, with check_order the closure of the hard constraint
evaluate_result(activity_ctx) ==
    LET prev == activity_ctx.prev.job
        target == activity_ctx.target.job
        next == IF activity_ctx.next = None THEN None ELSE activity_ctx.next[1].job
    IN  CASE prev # None /\ target # None /\ next = None ->
                check_order(get_order(prev[1]), get_order(target[1]), TRUE)
          [] prev = None /\ target # None /\ next # None ->
                check_order(get_order(target[1]), get_order(next[1]), FALSE)
          [] prev # None /\ target # None /\ next # None ->
                IF check_order(get_order(prev[1]), get_order(target[1]), TRUE) # None
                THEN check_order(get_order(prev[1]), get_order(target[1]), TRUE)
                ELSE check_order(get_order(target[1]), get_order(next[1]), FALSE)
          [] OTHER -> None

\* TourOrderHardActivityConstraint::evaluate_activity
evaluate_activity(activity_ctx) == evaluate_result(activity_ctx)

\* the priorities of get_violations: the order of every activity with a job
RECURSIVE priorities(_)
priorities(tour) ==
    IF tour = <<>> THEN <<>>
    ELSE (IF Head(tour).job = None THEN <<>>
          ELSE <<IF order_func(Head(tour).job[1]) = None THEN f64_MAX
                 ELSE order_func(Head(tour).job[1])[1]>>)
         \o priorities(Tail(tour))

\* the fold of get_violations over the windows of two priorities
windows_violations(values) ==
    Cardinality({i \in 1..Len(values) - 1 : values[i] > values[i + 1]})

\* get_violations: the sum over the routes
RECURSIVE get_violations(_)
get_violations(all_routes) ==
    IF all_routes = <<>> THEN 0
    ELSE windows_violations(priorities(Head(all_routes))) + get_violations(Tail(all_routes))

\* the activity context of an insertion of target behind the activity at
\* index in the tour
ActivityContext(tour, index, target) ==
    [prev |-> tour[index],
     target |-> target,
     next |-> IF index < Len(tour) THEN Some(tour[index + 1]) ELSE None]

\* the tour with target behind the activity at index
InsertAt(tour, index, target) ==
    SubSeq(tour, 1, index) \o <<target>> \o SubSeq(tour, index + 1, Len(tour))

\* the population and the solver, which the tour order does not touch
beside_routes == <<config, result, elite, phase, panic, added, builder, solver, borrows>>

InitTour ==
    /\ config = Config(7, 2, 2)
    /\ result = Rosomaxa_new(config).result
    /\ elite = Rosomaxa_new(config).elite
    /\ phase = Rosomaxa_new(config).phase
    /\ panic = "none"
    /\ added = 0
    /\ builder = Builder_new
    /\ solver = NotBuilt
    /\ routes = <<>>
    /\ borrows = NoBorrows

\* a vehicle starts a route: a start and, unless the tour is open, an end
AddRoute ==
    /\ Len(routes) < MaxRoutes
    /\ \E tour \in {<<TerminalActivity>>, <<TerminalActivity, TerminalActivity>>} :
           routes' = Append(routes, tour)
    /\ UNCHANGED beside_routes

\* an insertion the hard activity constraint accepts: the job goes behind
\* the start or behind a job, never behind the end of a closed tour
InsertActivity ==
    /\ \E r \in 1..Len(routes), single \in Singles :
        \E index \in 1..Len(routes[r]) :
            /\ Len(priorities(routes[r])) < MaxJobs
            /\ index = 1 \/ routes[r][index].job # None
            /\ evaluate_activity(ActivityContext(routes[r], index, JobActivity(single))) = None
            /\ routes' = [routes EXCEPT ![r] = InsertAt(@, index, JobActivity(single))]
    /\ UNCHANGED beside_routes

NextTour ==
    \/ AddRoute
    \/ InsertActivity

SpecTour == InitTour /\ [][NextTour]_vars

(***************************************************************************)
(* The callers of one population, with the calls of the mutators split     *)
(* into call and return and the iterator of select followed from its       *)
(* creation to its drop.  The iterator is lazy: the elite part is taken    *)
(* first, then one coordinate at a time the node is looked up, its read    *)
(* lock taken, the references to the members of its archive collected, and *)
(* the lock released at the end of the closure; the references stay with   *)
(* the iterator.                                                           *)
(***************************************************************************)
Mutators == {"add", "add_all", "on_generation"}

beside_borrows == <<config, result, elite, phase, panic, added, builder, solver, routes>>

InitBorrow ==
    /\ config = Config(7, 2, 2)
    /\ result = Rosomaxa_new(config).result
    /\ elite = Rosomaxa_new(config).elite
    /\ phase = Rosomaxa_new(config).phase
    /\ panic = "none"
    /\ added = 0
    /\ builder = Builder_new
    /\ solver = NotBuilt
    /\ routes = <<>>
    /\ borrows = NoBorrows

\* a caller enters add, add_all or on_generation
CallMutator ==
    /\ Alive
    /\ may_borrow_mut
    /\ \E operation \in Mutators \ borrows.writers :
           /\ operation = "add" => added < MaxAdded
           /\ borrows' = [borrows EXCEPT !.writers = @ \cup {operation}]
    /\ UNCHANGED beside_borrows

ReturnAdd ==
    /\ "add" \in borrows.writers
    /\ added < MaxAdded
    /\ \E individual \in Solutions :
        LET r == add(individual)
        IN  /\ elite' = r.elite
            /\ phase' = r.phase
    /\ added' = added + 1
    /\ borrows' = [borrows EXCEPT !.writers = @ \ {"add"}]
    /\ UNCHANGED <<config, result, panic, builder, solver, routes>>

ReturnAddAll ==
    /\ "add_all" \in borrows.writers
    /\ \E individuals \in Batches :
        /\ added + Len(individuals) <= MaxAdded
        /\ LET r == add_all(individuals)
           IN  /\ elite' = r.elite
               /\ phase' = r.phase
        /\ added' = added + Len(individuals)
    /\ borrows' = [borrows EXCEPT !.writers = @ \ {"add_all"}]
    /\ UNCHANGED <<config, result, panic, builder, solver, routes>>

ReturnOnGeneration ==
    /\ "on_generation" \in borrows.writers
    /\ \E statistics \in Statistics :
        \E out \in update_phase(statistics) :
            /\ phase' = out.phase
            /\ panic' = out.panic
    /\ borrows' = [borrows EXCEPT !.writers = @ \ {"on_generation"}]
    /\ UNCHANGED <<config, result, elite, added, builder, solver, routes>>

\* select: the iterator is created and nothing is yielded yet
SelectCall ==
    /\ Alive
    /\ may_borrow_shared
    /\ borrows.iterator = None
    /\ \E elite_draw \in EliteDraws :
           borrows' = [borrows EXCEPT !.iterator =
                          Some([elite_draw |-> elite_draw, visited |-> 0,
                                yielded |-> <<>>, seen |-> {}])]
    /\ UNCHANGED beside_borrows

\* how many individuals the iterator yields at most: take(selection_size)
iterator_limit ==
    IF phase.kind \in {"Exploration", "Exploitation"}
    THEN phase.selection_size
    ELSE Len(elite)

\* the iterator is advanced through its next source: the elite archive
\* first, then the node of the next coordinate
IteratorNext ==
    /\ borrows.iterator # None
    /\ LET iterator == borrows.iterator[1]
       IN  \/ /\ iterator.visited = 0
              /\ LET from_elite ==
                         IF phase.kind = "Exploration"
                         THEN Take(Elitism_select(elite, elite_selection_size),
                                   explore_sizes(phase.selection_size,
                                                 iterator.elite_draw)[1])
                         ELSE Elitism_select(elite, elite_selection_size)
                 IN  borrows' = [borrows EXCEPT !.iterator =
                         Some([iterator EXCEPT
                                  !.visited = 1,
                                  !.yielded = Take(FromElite(from_elite), iterator_limit)])]
           \/ /\ iterator.visited >= 1
              /\ phase.kind = "Exploration"
              /\ iterator.visited <= Len(phase.coordinates)
              /\ Len(iterator.yielded) < iterator_limit
              /\ \E explore_size \in 1..explore_sizes(phase.selection_size, 2)[2] :
                   LET coordinate == phase.coordinates[iterator.visited][1]
                       found == coordinate \in DOMAIN phase.network.nodes
                       population == phase.network.nodes[coordinate].population
                   IN  borrows' = [borrows EXCEPT !.iterator =
                           Some([iterator EXCEPT
                                    !.visited = @ + 1,
                                    !.yielded =
                                        IF found
                                        THEN Take(@ \o FromNode(
                                                     Take(Elitism_select(population,
                                                              phase.network.node_size),
                                                          explore_size),
                                                     coordinate),
                                                  iterator_limit)
                                        ELSE @,
                                    !.seen =
                                        IF found
                                        THEN @ \cup {<<coordinate, population>>}
                                        ELSE @])]
    /\ UNCHANGED beside_borrows

\* the iterator goes out of scope
IteratorDrop ==
    /\ borrows.iterator # None
    /\ borrows' = [borrows EXCEPT !.iterator = None]
    /\ UNCHANGED beside_borrows

NextBorrow ==
    \/ CallMutator
    \/ ReturnAdd
    \/ ReturnAddAll
    \/ ReturnOnGeneration
    \/ SelectCall
    \/ IteratorNext
    \/ IteratorDrop

SpecBorrow == InitBorrow /\ [][NextBorrow]_vars

----------------------------------------------------------------------------
(* Properties of the population                                            *)

\* C1: new returns an error exactly when elite_size < 1, node_size < 1 or
\* selection_size < 2; otherwise it returns a population in phase Initial
\* with an empty buffer and an empty elite archive, whose select yields
\* nothing.
C1_NewValidatesConfig ==
    /\ (result = "Err") <=>
           (config.elite_size < 1 \/ config.node_size < 1 \/ config.selection_size < 2)
    /\ result = "Err" => phase.kind = "None"
    /\ (result = "Ok" /\ added = 0) =>
           /\ phase = [kind |-> "Initial", solutions |-> <<>>]
           /\ elite = <<>>
           /\ size = 0
           /\ selection_phase = "Initial"
           /\ SelectResults = {<<>>}

\* new refused a configuration whose only fault is a selection size of 1
C1_Witness ==
    /\ result = "Err"
    /\ config.selection_size = 1
    /\ config.elite_size >= 1
    /\ config.node_size >= 1

\* C2: in every phase and after any sequence of add, add_all and
\* on_generation, size is the number of individuals in the elite archive
\* and never exceeds config.elite_size.
C2_SizeIsEliteSize ==
    Alive =>
        /\ size = Cardinality(Range(elite))
        /\ size <= config.elite_size

\* a full elite archive in Exploration after more individuals were added
\* than it can hold
C2_Witness ==
    /\ Alive
    /\ phase.kind = "Exploration"
    /\ size = config.elite_size
    /\ added > config.elite_size + 1

\* C3: select yields at most the current selection size (config.selection_size
\* in Initial, the value stored by the latest on_generation otherwise), and in
\* Exploitation every yielded individual comes from the elite archive.
C3_SelectBounded ==
    Alive =>
        \A r \in SelectResults :
            /\ Len(r) <= (IF phase.kind = "Initial" THEN config.selection_size
                          ELSE phase.selection_size)
            /\ phase.kind = "Exploitation" =>
                   \A i \in 1..Len(r) :
                       /\ r[i].archive = "elite"
                       /\ r[i].individual \in Range(elite)

\* Exploration with a stored selection size of 4 while the elite archive and
\* the listed nodes together hold more than 4 individuals
C3_Witness ==
    /\ Alive
    /\ phase.kind = "Exploration"
    /\ phase.selection_size = 4
    /\ Len(elite) = 2
    /\ Len(phase.coordinates) >= 3
    /\ \E r \in SelectResults : Len(r) = 4

\* C4: while fewer than 4 individuals in total have been passed to add and
\* add_all, every on_generation call leaves the phase Initial and the buffer
\* as it is.
C4_InitialBelowFour ==
    (Alive /\ added < 4) =>
        /\ phase.kind = "Initial"
        /\ Len(phase.solutions) = added
        /\ \A statistics \in Statistics :
               update_phase(statistics) = {[phase |-> phase, panic |-> "none"]}

\* three individuals are buffered, one short of the seed
C4_Witness ==
    /\ Alive
    /\ added = 3
    /\ phase.kind = "Initial"
    /\ Len(phase.solutions) = 3

C6_ModerateLeavesAtRatio ==
    (Alive /\ phase.kind = "Exploration" /\ phase.statistics.speed = Moderate) =>
        \A statistics \in Statistics :
            statistics.speed = Moderate =>
                \A out \in update_phase(statistics) :
                    /\ out.phase.kind \in {"Exploration", "Exploitation"}
                    /\ out.panic = "none"
                    /\ (out.phase.kind = "Exploitation") <=>
                           (statistics.termination_estimate >= config.exploration_ratio)

\* Exploitation reached with the selection size a Moderate call stores
C6_Witness ==
    /\ Alive
    /\ phase.kind = "Exploitation"
    /\ phase.selection_size = config.selection_size

\* C7: add puts the individual into the elite archive exactly when the
\* archive is empty or the individual is not strictly worse than its best
\* member, and then returns the flag of the archive; otherwise the archive
\* stays as it is and add returns false.
C7_AddFiltersByBest ==
    Alive =>
        \A individual \in Solutions :
            LET r == add(individual)
                passes == \/ elite = <<>>
                          \/ total_order(individual, elite[1]) # "Greater"
                archive == Elitism_add(elite, config.elite_size, individual)
            IN  /\ passes => /\ r.elite_args = <<individual>>
                             /\ r.elite = archive.individuals
                             /\ r.is_improved = archive.improved
                /\ ~passes => /\ r.elite_args = <<>>
                              /\ r.elite = elite
                              /\ r.is_improved = FALSE

\* the archive holds one individual and has room for another, and the
\* second individual of the buffer, strictly worse, was kept out of it
C7_Witness ==
    /\ Alive
    /\ phase.kind = "Initial"
    /\ Len(phase.solutions) = 2
    /\ Len(elite) = 1
    /\ config.elite_size = 2
    /\ total_order(phase.solutions[2], elite[1]) = "Greater"

\* C8: whether or not the elite archive took it, add hands the individual to
\* the phase: Initial appends it to the buffer, Exploration stores it into
\* the network with the generation of the stored statistics, Exploitation
\* keeps nothing more.
C8_AddRoutesToPhase ==
    Alive =>
        \A individual \in Solutions :
            LET after == add(individual).phase
            IN  /\ phase.kind = "Initial" =>
                       /\ after.kind = "Initial"
                       /\ Len(after.solutions) = Len(phase.solutions) + 1
                       /\ after.solutions[Len(after.solutions)] = individual
                       /\ Take(after.solutions, Len(phase.solutions)) = phase.solutions
                /\ phase.kind = "Exploration" =>
                       /\ after.network =
                              Network_store(phase.network,
                                            [weights |-> individual.weights,
                                             individual |-> individual],
                                            phase.statistics.generation)
                       /\ [after EXCEPT !.network = phase.network] = phase
                /\ phase.kind = "Exploitation" => after = phase

\* in Exploration, with room left in the elite archive, a node hit at
\* generation 1 holds an individual strictly worse than the best of the
\* archive, which is not in the archive
C8_Witness ==
    /\ Alive
    /\ phase.kind = "Exploration"
    /\ phase.coordinates = <<>>
    /\ phase.statistics.generation = 1
    /\ Network_get_current_time(phase.network) = 1
    /\ Len(elite) = 1
    /\ config.elite_size = 2
    /\ \E c \in DOMAIN phase.network.nodes :
           LET node == phase.network.nodes[c]
           IN  /\ node.last_hit = 1
               /\ \E i \in 1..Len(node.population) :
                      total_order(node.population[i], elite[1]) = "Greater"

\* C9: add_all tests every individual of the batch against the best member
\* the elite archive has when the call starts, hands the ones that pass to
\* the archive in one add_all, and hands the whole batch to the phase.
C9_AddAllFiltersAtStart ==
    Alive =>
        \A individuals \in Batches :
            LET r == add_all(individuals)
                passes(x) == \/ elite = <<>>
                             \/ total_order(x, elite[1]) # "Greater"
                passing == SelectSeq(individuals, passes)
                archive == Elitism_add_all(elite, config.elite_size, passing)
            IN  /\ r.elite_args = passing
                /\ r.elite = archive.individuals
                /\ r.is_improved = archive.improved
                /\ phase.kind = "Initial" =>
                       r.phase = [phase EXCEPT !.solutions = @ \o individuals]
                /\ phase.kind = "Exploration" =>
                       /\ r.phase.network =
                              Network_store_batch(phase.network,
                                  [i \in 1..Len(individuals) |->
                                      [weights |-> individuals[i].weights,
                                       individual |-> individuals[i]]],
                                  phase.statistics.generation)
                       /\ [r.phase EXCEPT !.network = phase.network] = phase
                /\ phase.kind = "Exploitation" => r.phase = phase

\* one batch of a better and then a worse individual was added to the empty
\* population: both are in the elite archive
C9_Witness ==
    /\ Alive
    /\ phase.kind = "Initial"
    /\ Len(phase.solutions) = 2
    /\ total_order(phase.solutions[1], phase.solutions[2]) = "Less"
    /\ elite = phase.solutions

\* C10: in Exploration select yields first up to elite_picks individuals of
\* the elite archive, then, for each coordinate of the list in list order,
\* between 1 and node_picks individuals of that node (as many as it has, if
\* fewer), the whole cut at the stored selection size S; (elite_picks,
\* node_picks) is (a draw from 2..4, 2) for S > 6, (2, 2) for S of 5 or 6,
\* (2, 1) for S of 3 or 4, and (1, 1) for S <= 2.
C10_ExplorationSelect ==
    /\ \A S \in 1..(config.selection_size + 1) : \A draw \in 2..4 :
           explore_sizes(S, draw) =
               CASE S \in {1, 2} -> <<1, 1>>
                 [] S \in {3, 4} -> <<2, 1>>
                 [] S \in {5, 6} -> <<2, 2>>
                 [] OTHER -> <<draw, 2>>
    /\ (Alive /\ phase.kind = "Exploration") =>
        /\ EliteDraws = (IF phase.selection_size > 6 THEN 2..4 ELSE {0})
        /\ \A elite_draw \in EliteDraws : \A node_draws \in NodeDraws :
            LET r == select(elite_draw, node_draws)
                S == phase.selection_size
                picks == explore_sizes(S, elite_draw)
                coords == [k \in 1..Len(phase.coordinates) |-> phase.coordinates[k][1]]
                members(k) == phase.network.nodes[coords[k]].population
                from_elite == Min(picks[1], Len(elite))
                from_node(k) == Min(node_draws[k], Len(members(k)))
                RECURSIVE before(_)
                \* what the elite archive and the nodes before the k-th give
                before(k) == IF k = 1 THEN from_elite
                             ELSE before(k - 1) + from_node(k - 1)
            IN  /\ \A k \in 1..Len(coords) : node_draws[k] \in 1..picks[2]
                /\ Len(r) = Min(S, before(Len(coords) + 1))
                /\ \A i \in 1..Len(r) :
                       IF i <= from_elite
                       THEN /\ r[i].archive = "elite"
                            /\ r[i].individual = elite[i]
                       ELSE \E k \in 1..Len(coords) :
                               /\ before(k) < i
                               /\ i <= before(k) + from_node(k)
                               /\ r[i].archive = "node"
                               /\ r[i].coordinate = coords[k]
                               /\ r[i].individual = members(k)[i - before(k)]

\* Exploration with selection size 7: the list names four nodes, one of
\* them with two individuals, and one select yields two of the elite archive
\* and five of the nodes
C10_Witness ==
    /\ Alive
    /\ phase.kind = "Exploration"
    /\ phase.selection_size = 7
    /\ Len(elite) = 2
    /\ Len(phase.coordinates) = 4
    /\ \E r \in SelectResults :
           /\ Len(r) = 7
           /\ r[2].archive = "elite"
           /\ r[3].archive = "node"

\* C11 as stated: after any on_generation call that ends in Exploration the
\* coordinate list holds exactly one entry for each node with a non-empty
\* archive and no other entry.
C11_CoordinatesAfterAnyCall ==
    Alive =>
        \A statistics \in Statistics :
            \A out \in update_phase(statistics) :
                (out.panic = "none" /\ out.phase.kind = "Exploration") =>
                    LET cs == out.phase.coordinates
                        nodes == out.phase.network.nodes
                        non_empty == {c \in DOMAIN nodes : nodes[c].population # <<>>}
                    IN  /\ Len(cs) = Cardinality(non_empty)
                        /\ {cs[k][1] : k \in 1..Len(cs)} = non_empty

\* C11, amended: after an on_generation call made in Exploration that ends in
\* Exploration the coordinate list holds exactly one entry for each node
\* with a non-empty archive and no other entry; the call that enters
\* Exploration from Initial leaves the list empty.
C11_CoordinatesAfterExploration ==
    Alive =>
        \A statistics \in Statistics :
            \A out \in update_phase(statistics) :
                (out.panic = "none" /\ out.phase.kind = "Exploration") =>
                    LET cs == out.phase.coordinates
                        nodes == out.phase.network.nodes
                        non_empty == {c \in DOMAIN nodes : nodes[c].population # <<>>}
                    IN  IF phase.kind = "Exploration"
                        THEN /\ Len(cs) = Cardinality(non_empty)
                             /\ {cs[k][1] : k \in 1..Len(cs)} = non_empty
                        ELSE cs = <<>>

\* Exploration after a call made in Exploration: the network has grown to six
\* nodes, two of them empty, and the list names the other four
C11_Witness ==
    /\ Alive
    /\ phase.kind = "Exploration"
    /\ Network_size(phase.network) = 6
    /\ Len(phase.coordinates) = 4
    /\ \E c \in DOMAIN phase.network.nodes : phase.network.nodes[c].population = <<>>

\* C12: optimize_network leaves the network as it is whenever
\* statistics.generation = 0 or network.size() <= keep_size, where keep_size
\* is 4R for improvement_1000_ratio <= 0.01, 3R for 0.01 < ratio <= 0.1, 2R
\* for 0.1 < ratio <= 0.2 and between R and 2R for ratio > 0.2 (R is
\* rebalance_memory).
C12_OptimizeNetworkNoOp ==
    (Alive /\ phase.kind = "Exploration" /\ elite # <<>>) =>
        \A R \in 1..2 :
            \A statistics \in [generation : 0..MaxGen,
                               termination_estimate : TerminationEstimates,
                               improvement_1000_ratio : {0, 1, 5, 10, 15, 20, 30, 60},
                               speed : {Moderate}] :
                LET v == statistics.improvement_1000_ratio
                    keep == keep_size(statistics, R)
                IN  /\ v <= 1 => keep = 4 * R
                    /\ (1 < v /\ v <= 10) => keep = 3 * R
                    /\ (10 < v /\ v <= 20) => keep = 2 * R
                    /\ v > 20 => (R <= keep /\ keep <= 2 * R)
                    /\ (statistics.generation = 0 \/ Network_size(phase.network) <= keep) =>
                           optimize_network(phase.network, statistics, get_fitness(elite[1]),
                                            R, config.rebalance_count) = phase.network

\* a call made in Exploration at generation 1 with keep_size 4 found 4 nodes
\* and kept them
C12_Witness ==
    /\ Alive
    /\ phase.kind = "Exploration"
    /\ phase.coordinates # <<>>
    /\ phase.statistics.generation = 1
    /\ phase.statistics.improvement_1000_ratio = 0
    /\ keep_size(phase.statistics, config.rebalance_memory) = 4
    /\ Network_size(phase.network) = 4

\* C13: when pruning runs on a network in which len > keep_size nodes have a
\* distance to the best fitness, all distances distinct, the keep predicate
\* handed to retrain rejects exactly the len - keep_size nodes farthest from
\* the best fitness and accepts the other keep_size nodes.
C13_PredicateKeepsKeepSize ==
    (Alive /\ phase.kind = "Exploration" /\ elite # <<>>) =>
        \A statistics \in Statistics :
            LET network == phase.network
                best_fitness == get_fitness(elite[1])
                keep == keep_size(statistics, config.rebalance_memory)
                distances == sorted_distances(network, best_fitness)
                len == Len(distances)
                idx == percentile_idx(len, keep)
                with_distance == {c \in DOMAIN network.nodes :
                                     get_distance(network.nodes[c], best_fitness) # <<>>}
                distance(c) == get_distance(network.nodes[c], best_fitness)[1]
                farther(c) == {d \in with_distance :
                                  compare_floats(distance(d), distance(c)) = "Greater"}
                farthest == {c \in with_distance : Cardinality(farther(c)) < len - keep}
                accepted == kept_nodes(network, best_fitness, distances[idx + 1])
            IN  (/\ statistics.generation # 0
                 /\ Network_size(network) > keep
                 /\ len > keep
                 /\ \A c, d \in with_distance :
                        c # d => compare_floats(distance(c), distance(d)) # "Equal")
                => /\ with_distance \ accepted = farthest
                   /\ Cardinality(accepted) = keep

\* C14: every on_generation call made in Exploration or Exploitation, and the
\* call that enters Exploration or Exploitation, stores selection_size =
\* config.selection_size when the passed speed is Moderate and
\* max(1, round(config.selection_size * ratio)) when it is Slow(ratio); the
\* stored value is never below 1.
C14_StoredSelectionSize ==
    Alive =>
        LET \* the integer nearest to selection_size * ratio / 100, halves upwards
            rounded(ratio) ==
                CHOOSE n \in 0..(config.selection_size * ratio) :
                    /\ 200 * n - 100 <= 2 * config.selection_size * ratio
                    /\ 2 * config.selection_size * ratio < 200 * n + 100
            expected(speed) ==
                IF speed.kind = "Moderate" THEN config.selection_size
                ELSE IF rounded(speed.ratio) < 1 THEN 1 ELSE rounded(speed.ratio)
        IN  /\ \A ratio \in {1, 10, 24, 25, 49, 50, 75, 100, 150} :
                   LET statistics == [generation |-> 0, termination_estimate |-> 70,
                                      improvement_1000_ratio |-> 0, speed |-> Slow(ratio)]
                   IN  /\ speed_selection_size(statistics) = expected(Slow(ratio))
                       /\ speed_selection_size(statistics) >= 1
            /\ \A statistics \in Statistics :
                   \A out \in update_phase(statistics) :
                       out.phase.kind \in {"Exploration", "Exploitation"} =>
                           /\ out.phase.selection_size = expected(statistics.speed)
                           /\ out.phase.selection_size >= 1

\* Exploitation with the stored size 1 under a configured size of 2: the
\* last call passed Slow(0.5)
C14_Witness ==
    /\ Alive
    /\ phase.kind = "Exploitation"
    /\ config.selection_size = 2
    /\ phase.selection_size = 1

\* C15: select, ranked, cmp, size and selection_phase change nothing in the
\* population: phase, elite archive, network, coordinate list and stored
\* selection_size are the same before and after each of these calls, in
\* every phase.
C15_ReadsChangeNothing ==
    [][(Select \/ Ranked \/ Cmp \/ Size \/ SelectionPhase) =>
           (phase' = phase /\ elite' = elite /\ config' = config)]_vars

\* Exploration with a filled coordinate list and two elite members, where
\* select draws from the elite archive and from the nodes
C15_Witness ==
    /\ Alive
    /\ phase.kind = "Exploration"
    /\ Len(phase.coordinates) = 4
    /\ Len(elite) = 2
    /\ Cardinality(SelectResults) > 1

\* C16 as stated: in every phase two select calls in succession, with no
\* add, add_all or on_generation between them, yield the same multiset of
\* members.
C16_SelectTwiceSameMultiset ==
    Alive =>
        \A r1, r2 \in SelectResults :
            \A x \in Range(r1) \cup Range(r2) :
                Cardinality({i \in 1..Len(r1) : r1[i] = x})
                    = Cardinality({i \in 1..Len(r2) : r2[i] = x})

\* C16, amended: in Initial, in Exploitation, and in Exploration while the
\* stored selection_size is at most 4, two select calls in succession with no
\* add, add_all or on_generation between them yield the same multiset of
\* members (the same sequence); in Exploration with a larger selection_size
\* the number taken from each node is drawn anew by every call.
C16_SelectTwiceWithoutDraws ==
    (Alive /\ (phase.kind = "Exploration" => phase.selection_size <= 4)) =>
        /\ Cardinality(SelectResults) = 1
        /\ \A r1, r2 \in SelectResults :
               \A x \in Range(r1) \cup Range(r2) :
                   Cardinality({i \in 1..Len(r1) : r1[i] = x})
                       = Cardinality({i \in 1..Len(r2) : r2[i] = x})

\* Exploration with selection size 4 and a listed node that holds two
\* individuals, of which every select takes one
C16_Witness ==
    /\ Alive
    /\ phase.kind = "Exploration"
    /\ phase.selection_size = 4
    /\ \E k \in 1..Len(phase.coordinates) :
           Len(phase.network.nodes[phase.coordinates[k][1]].population) = 2
    /\ \E r \in SelectResults : \E i \in 1..Len(r) : r[i].archive = "node"

\* C17: adding the same solution twice in succession through add leaves the
\* elite archive with the same membership, and the same size, as adding it
\* once.
C17_AddTwiceAsOnce ==
    [][\A individual \in Solutions :
           (added' = added + 1 /\ elite' = add_elite(individual).elite)
           => /\ (add_elite(individual).elite)' = elite'
              /\ Len((add_elite(individual).elite)') = size']_vars

\* the same individual was added twice to the empty population, whose elite
\* archive has room for two, and the archive holds it once
C17_Witness ==
    /\ Alive
    /\ phase.kind = "Initial"
    /\ Len(phase.solutions) = 2
    /\ phase.solutions[1] = phase.solutions[2]
    /\ config.elite_size = 2
    /\ elite = <<phase.solutions[1]>>

C19_DefaultLimitsApply ==
    solver.built =>
        /\ builder.max_generations = None => solver.generation <= 3000
        /\ builder.max_time = None => solver.elapsed <= 300

(***************************************************************************)
(* C20: under the constrained tour order, insertions that the hard         *)
(* activity constraint accepts keep every tour in non-decreasing order     *)
(* value, a job without an order value counting as the largest: no job is  *)
(* placed after a less prioritized one, and get_violations stays 0.        *)
(***************************************************************************)
C20_AcceptedInsertionsKeepOrder ==
    /\ \A r \in 1..Len(routes) :
        \A i, j \in 1..Len(routes[r]) :
            (i < j /\ routes[r][i].job # None /\ routes[r][j].job # None)
                => get_order(routes[r][i].job[1]) <= get_order(routes[r][j].job[1])
    /\ get_violations(routes) = 0

\* a closed tour of three jobs, the last without an order value, into which
\* an insertion behind the first job was accepted and where the constraint
\* rejects another one
C20_Witness ==
    \E r \in 1..Len(routes) :
        /\ Len(routes[r]) = 5
        /\ routes[r][5].job = None
        /\ priorities(routes[r]) = <<1, 2, f64_MAX>>
        /\ evaluate_activity(ActivityContext(
               SubSeq(routes[r], 1, 2) \o SubSeq(routes[r], 4, 5), 2,
               routes[r][3])) = None
        /\ \E single \in Singles :
               evaluate_activity(ActivityContext(routes[r], 3, JobActivity(single))) # None

(***************************************************************************)
(* C21: over any sequence of operations the phase moves forward one step   *)
(* at a time, Initial -> Exploration -> Exploitation.  No step moves it    *)
(* backwards, no step leaves Exploitation, no step takes Initial straight  *)
(* to Exploitation; the phase kind changes only in an on_generation step   *)
(* (one that leaves the elite and the count of added individuals alone),   *)
(* and Initial is left only with four or more buffered solutions, so that  *)
(* Exploitation is two on_generation calls away from the fourth addition.  *)
(***************************************************************************)
C21_PhaseMovesForward ==
    [][/\ phase.kind = "Exploitation" => phase'.kind = "Exploitation"
       /\ phase.kind = "Exploration" => phase'.kind \in {"Exploration", "Exploitation"}
       /\ phase.kind = "Initial" => phase'.kind \in {"Initial", "Exploration"}
       /\ phase'.kind # phase.kind => (elite' = elite /\ added' = added)
       /\ (phase.kind = "Initial" /\ phase'.kind = "Exploration")
              => Len(phase.solutions) >= 4]_vars

\* a population in Exploitation that is handed statistics whose estimate
\* lies below the exploration ratio
C21_Witness ==
    /\ Alive
    /\ phase.kind = "Exploitation"
    /\ added >= 4
    /\ \E statistics \in Statistics :
        /\ statistics.termination_estimate * 100 < config.exploration_ratio * 100
        /\ \A out \in update_phase(statistics) : out.phase.kind = "Exploitation"

(***************************************************************************)
(* C22: in Exploration, on_generation(statistics) compares the             *)
(* termination estimate of the statistics against config.exploration_ratio *)
(* times the ratio of the Slow speed of those same statistics (against     *)
(* config.exploration_ratio alone when their speed is Moderate), and stays *)
(* in Exploration iff the estimate is strictly below that value.           *)
(***************************************************************************)
C22_RatioOfTheSameCall ==
    (Alive /\ phase.kind = "Exploration") =>
        \A statistics \in Statistics :
            LET ratio == IF statistics.speed.kind = "Slow"
                         THEN config.exploration_ratio * statistics.speed.ratio
                         ELSE config.exploration_ratio * 100
            IN  (\A out \in update_phase(statistics) : out.phase.kind = "Exploration")
                    <=> statistics.termination_estimate * 100 < ratio

C24_ShuffleAmountAndOrder ==
    /\ added = 0 =>
        \A v \in {0, 20, 21, 50, 51, 100}, x \in {0, 50, 70, 90, 95, 100}, len \in 0..8 :
            \A amount \in {calculate_shuffle_amount(
                               [generation |-> 1, termination_estimate |-> x,
                                improvement_1000_ratio |-> v, speed |-> Moderate], len)} :
                /\ amount <= len
                /\ v <= 20 => amount = len
                /\ (20 < v /\ v <= 50) => amount = RoundDiv(len, 2)
                /\ v > 50 => (RoundDiv(len, 10) <= amount /\ amount <= RoundDiv(len, 2))
    /\ (Alive /\ phase.kind = "Exploration" /\ elite # <<>>) =>
        \A collected \in {collect_coordinates(phase.network, get_fitness(elite[1]))} :
        \A statistics \in {st \in Statistics : st.generation = 1 /\ st.speed = Moderate} :
        \A len \in {Len(collected)} :
        \A amount \in {calculate_shuffle_amount(statistics, len)} :
        \A untouched \in {[i \in 1..len |-> i]} :
        \A heads \in {order_coordinates(collected, statistics, TRUE, untouched)} :
        \A tails \in {order_coordinates(collected, statistics, FALSE, untouched)} :
            IF amount = len
            THEN /\ heads = collected
                 /\ tails = collected
                 /\ \A draws \in {untouched, [i \in 1..len |-> 1],
                                [i \in 1..len |-> IF i = 1 THEN 1 ELSE i - 1]} :
                        \A shuffled \in {order_coordinates(collected, statistics, TRUE, draws)} :
                            /\ shuffled = ShuffleLoopWith(collected, len, 1, draws)
                            /\ shuffled = order_coordinates(collected, statistics, FALSE, draws)
            ELSE /\ Range(heads) = Range(collected)
                 /\ Range(tails) = Range(collected)
                 /\ \A i, j \in 1..len :
                        i < j => /\ compare_floats(heads[i][2], heads[j][2]) # "Greater"
                                 /\ tails[i][3] <= tails[j][3]
                 /\ \A draws \in {untouched, [i \in 1..len |-> 1],
                                [i \in 1..len |-> IF i = 1 THEN 1 ELSE i - 1]} :
                        \A used \in {[i \in 1..len |->
                                         IF i > len - amount THEN draws[i] ELSE i]} :
                            /\ order_coordinates(collected, statistics, TRUE, draws)
                                   = ShuffleLoopWith(heads, len, 0, used)
                            /\ order_coordinates(collected, statistics, FALSE, draws)
                                   = ShuffleLoopWith(tails, len, 0, used)

\* a refill of three or more coordinates of which only a part is shuffled,
\* where the two sorts give different lists
C24_Witness ==
    /\ Alive
    /\ phase.kind = "Exploration"
    /\ elite # <<>>
    /\ \E statistics \in Statistics :
        LET collected == collect_coordinates(phase.network, get_fitness(elite[1]))
        IN  /\ Len(collected) >= 3
            /\ calculate_shuffle_amount(statistics, Len(collected)) # Len(collected)
            /\ SortBy(collected, "by distance") # SortBy(collected, "by last hit")
            /\ SortBy(collected, "by distance") # collected

(***************************************************************************)
(* C25: no sequence of add, add_all and on_generation calls reaches a      *)
(* fail-fast point of the phase controller.  No call has panicked; in      *)
(* Exploration the lookup of the best individual in the elite archive      *)
(* finds one; and whenever the buffer of the Initial phase is ready to     *)
(* seed the map, create_network is handed exactly four individuals and     *)
(* accepts them.                                                           *)
(***************************************************************************)
C25_NoFailFastReached ==
    /\ panic = "none"
    /\ (result = "Ok" /\ phase.kind = "Exploration") =>
           /\ Elitism_size(elite) >= 1
           /\ Take(Elitism_select(elite, elite_selection_size), 1) # <<>>
    /\ (result = "Ok" /\ phase.kind = "Initial" /\ seed_ready(phase.solutions)) =>
           /\ Len(seed_split(phase.solutions).seeds) = 4
           /\ create_network(seed_split(phase.solutions).seeds).panic = "none"

\* on_generation has entered Exploration and has run again there, past both
\* fail-fast points, and the archive is smaller than the number of additions
C25_Witness ==
    /\ Alive
    /\ phase.kind = "Exploration"
    /\ phase.coordinates # <<>>
    /\ added >= 4
    /\ Elitism_size(elite) < added

(***************************************************************************)
(* C26: the elite archive is changed only by add and add_all; the phase    *)
(* kind, the stored selection_size and the coordinate list only by         *)
(* on_generation.  A step that adds individuals keeps the phase kind, the  *)
(* stored selection_size and the coordinate list, and every coordinate of  *)
(* the list still names a node of the network afterwards; a step that adds *)
(* none (on_generation or a read) keeps the elite archive, hence size()    *)
(* and ranked().                                                           *)
(***************************************************************************)
C26_FrameOfMutators ==
    [][/\ added' = added =>
            /\ elite' = elite
            /\ Elitism_size(elite') = size
            /\ Elitism_ranked(elite') = ranked
       /\ added' # added =>
            /\ phase'.kind = phase.kind
            /\ phase.kind \in {"Exploration", "Exploitation"} =>
                   phase'.selection_size = phase.selection_size
            /\ phase.kind = "Exploration" =>
                   /\ phase'.coordinates = phase.coordinates
                   /\ phase'.statistics = phase.statistics
                   /\ \A i \in 1..Len(phase.coordinates) :
                          phase.coordinates[i][1] \in DOMAIN phase'.network.nodes
       /\ (phase.kind = "Exploration" /\ added' = added /\ phase'.kind = "Exploration") =>
            \A i \in 1..Len(phase'.coordinates) :
                phase'.coordinates[i][1] \in DOMAIN phase'.network.nodes]_vars

\* additions made after the latest on_generation have changed the network:
\* collecting the coordinates again would give another list than the stored
C26_Witness ==
    /\ Alive
    /\ phase.kind = "Exploration"
    /\ phase.coordinates # <<>>
    /\ elite # <<>>
    /\ Range(collect_coordinates(phase.network, get_fitness(elite[1])))
           # Range(phase.coordinates)

(***************************************************************************)
(* C27: whenever optimize_network calls retrain, at least one node         *)
(* satisfies the keep predicate, among them every node whose best          *)
(* individual is closest to the best fitness, so a pruning step never      *)
(* rejects every node of the network.                                      *)
(***************************************************************************)
C27_PruningKeepsClosestNode ==
    (Alive /\ phase.kind = "Exploration" /\ elite # <<>>) =>
        \A statistics \in Statistics :
            LET network == phase.network
                best_fitness == get_fitness(elite[1])
                keep == keep_size(statistics, config.rebalance_memory)
                distances == sorted_distances(network, best_fitness)
                len == Len(distances)
                idx == percentile_idx(len, keep)
                with_distance == {c \in DOMAIN network.nodes :
                                     get_distance(network.nodes[c], best_fitness) # <<>>}
                distance(c) == get_distance(network.nodes[c], best_fitness)[1]
                closest == {c \in with_distance :
                               \A d \in with_distance :
                                   compare_floats(distance(c), distance(d)) # "Greater"}
            IN  (/\ statistics.generation # 0
                 /\ Network_size(network) > keep
                 /\ idx + 1 <= len)
                => /\ kept_nodes(network, best_fitness, distances[idx + 1]) # {}
                   /\ closest \subseteq kept_nodes(network, best_fitness, distances[idx + 1])

(***************************************************************************)
(* C28: the on_generation call that enters Exploration neither optimizes   *)
(* the network nor refills the coordinates: the phase it leaves holds the  *)
(* seeded network with the rest of the buffer stored, and an empty         *)
(* coordinate list.  From then until the next on_generation call, whatever *)
(* is added, the coordinate list stays empty and every select() yields     *)
(* only members of the elite archive, from its best on, no more than the   *)
(* number of elite picks.                                                  *)
(***************************************************************************)
C28_EnteringCallLeavesCoordinatesEmpty ==
    [][/\ (phase.kind = "Initial" /\ phase'.kind = "Exploration") =>
            /\ phase'.coordinates = <<>>
            /\ LET split == seed_split(phase.solutions)
               IN  phase'.network =
                       Network_store_batch(create_network(split.seeds).network,
                           [i \in 1..Len(split.rest) |-> IndividualInput_new(split.rest[i])],
                           0)
       /\ (/\ phase'.kind = "Exploration"
           /\ \/ phase.kind = "Initial"
              \/ phase.kind = "Exploration" /\ phase.coordinates = <<>> /\ added' # added) =>
            /\ phase'.coordinates = <<>>
            /\ \A yielded \in SelectResults' :
                   /\ \A i \in 1..Len(yielded) : yielded[i].archive = "elite"
                   /\ yielded = Take(FromElite(Elitism_select(elite', elite_selection_size)),
                                     Len(yielded))
                   /\ \E elite_draw \in EliteDraws' :
                          Len(yielded) <= explore_sizes(phase'.selection_size, elite_draw)[1]]_vars

\* individuals were added after the call that entered Exploration: the
\* network holds solutions, the stored selection_size is 7, and no select()
\* yields more than the two members of the elite archive
C28_Witness ==
    /\ Alive
    /\ phase.kind = "Exploration"
    /\ phase.coordinates = <<>>
    /\ phase.statistics.generation = 0
    /\ added = 5
    /\ phase.selection_size = 7
    /\ \E c \in DOMAIN phase.network.nodes : phase.network.nodes[c].population # <<>>
    /\ \A yielded \in SelectResults : Len(yielded) = 2

(***************************************************************************)
(* C29: while an iterator returned by select() is alive no mutator runs on *)
(* the population, so every node-local archive whose members the iterator  *)
(* has yielded, and still references after the read lock of the node was   *)
(* released, is in the network and is as it was when the references were   *)
(* taken; and at most one mutator is in flight at any time.                *)
(***************************************************************************)
C29_IteratorExcludesMutators ==
    /\ Cardinality(borrows.writers) <= 1
    /\ borrows.iterator # None =>
           /\ borrows.writers = {}
           /\ \A archive \in borrows.iterator[1].seen :
                  /\ phase.kind = "Exploration"
                  /\ archive[1] \in DOMAIN phase.network.nodes
                  /\ phase.network.nodes[archive[1]].population = archive[2]
           /\ \A i \in 1..Len(borrows.iterator[1].yielded) :
                  LET reference == borrows.iterator[1].yielded[i]
                  IN  reference.archive = "node" =>
                          \E k \in 1..Len(phase.network.nodes[reference.coordinate].population) :
                              phase.network.nodes[reference.coordinate].population[k]
                                  = reference.individual

\* an iterator that holds references into the archives of two nodes, past
\* the release of their read locks, and is not exhausted
C29_Witness ==
    /\ Alive
    /\ borrows.iterator # None
    /\ Cardinality(borrows.iterator[1].seen) >= 2
    /\ \E i \in 1..Len(borrows.iterator[1].yielded) :
           borrows.iterator[1].yielded[i].archive = "node"
    /\ borrows.iterator[1].visited <= Len(phase.coordinates)

(***************************************************************************)
(* C30, as the code has it: add_all(batch) always leaves the phase store   *)
(* as adding the elements one by one in batch order does; it leaves the    *)
(* same elite archive and returns the same flag (true iff some add         *)
(* improved) when no element of the batch is worse than an earlier one.    *)
(* A batch of one element is the add of that element, an empty batch       *)
(* changes nothing and returns false.  The step is an add(x); add(y) is    *)
(* taken in the state after it and add_all(<<x, y>>) in the state before.  *)
(***************************************************************************)
C30_AddAllAsRepeatedAddInOrder ==
    [][added' = added + 1 =>
        /\ \A none \in {add_all(<<>>)} :
               none.elite = elite /\ none.phase = phase /\ ~none.is_improved
        /\ \A x \in Solutions :
            (elite' = add_elite(x).elite /\ phase' = add_route(x)) =>
                /\ \A one \in {add_all(<<x>>)} :
                       /\ one.elite = elite'
                       /\ one.phase = phase'
                       /\ one.is_improved = add_elite(x).is_improved
                /\ \A y \in Solutions :
                       \A both \in {add_all(<<x, y>>)} :
                           /\ both.phase = route_individual(phase', y)
                           /\ total_order(y, x) # "Greater" =>
                                  /\ both.elite = (add_elite(y).elite)'
                                  /\ both.is_improved =
                                         (add_elite(x).is_improved
                                              \/ (add_elite(y).is_improved)')]_vars

\* a population in Exploration with one individual in an elite archive of
\* two, to which a batch of two different individuals, the better one last,
\* can be added and improves the archive
C30_Witness ==
    /\ Alive
    /\ phase.kind = "Exploration"
    /\ config.elite_size = 2
    /\ Len(elite) = 1
    /\ \E x, y \in Solutions :
           /\ total_order(y, x) = "Less"
           /\ add_all(<<x, y>>).is_improved
           /\ add_all(<<x, y>>).elite # elite
           /\ add_all(<<x, y>>).phase # phase

\* C30: for every population state and every batch, add_all(batch) leaves
\* the same members in the elite archive and the same phase store and
\* returns the same flag as add called on each element in batch order.
C30_AddAllAsRepeatedAdd ==
    [][added' = added + 1 =>
        \A x \in Solutions :
            (elite' = add_elite(x).elite /\ phase' = add_route(x)) =>
                \A y \in Solutions :
                    \A both \in {add_all(<<x, y>>)} :
                        /\ both.phase = route_individual(phase', y)
                        /\ Range(both.elite) = Range((add_elite(y).elite)')
                        /\ both.is_improved =
                               (add_elite(x).is_improved
                                    \/ (add_elite(y).is_improved)')]_vars

====
